---------------------------- MODULE Spec2Model ----------------------------
(***************************************************************************)
(* State-machine model of the YouTube-livestream -> Telegram notification  *)
(* bot: the WebSub callback controller (handlers/websub.ts), the Redis     *)
(* backed duplicate suppressor (utils/deduplication.ts), the metadata      *)
(* fetcher (services/youtube.ts), the tag filter                           *)
(* (services/live-detector.ts) and the Telegram fan-out with its manual    *)
(* /notify trigger (services/telegram.ts).                                 *)
(*                                                                         *)
(* A process is one in-flight handler: "w1"/"w2" are webhook POST          *)
(* handlers, "m" is the /notify command handler.  A handler is cut into    *)
(* actions at the awaits that touch the outside world (store round-trip,   *)
(* metadata fetch, fan-out, mark), so that other handlers and the clock    *)
(* can interleave exactly where the event loop lets them.                  *)
(***************************************************************************)
EXTENDS Integers, Sequences, FiniteSets, TLC

----------------------------------------------------------------------------
(* Bounds of the model                                                     *)

MaxEntries == 2     \* entries per feed payload
MaxChats == 2       \* configured destinations when the controller runs
MaxDests == 3       \* configured destinations when the fan-out runs alone
MaxPad == 1         \* characters before and after the word in a description

(* Program constants                                                       *)

TTL_SECONDS == 86400          \* deduplication.ts: 24 * 60 * 60
TG_MAX_RETRIES == 3           \* telegram.ts MAX_RETRIES
TG_RETRY_DELAY_MS == 2000     \* telegram.ts RETRY_DELAY_MS
YT_MAX_RETRIES == 3           \* youtube.ts MAX_RETRIES
YT_RETRY_DELAY_MS == 1000     \* youtube.ts RETRY_DELAY_MS

----------------------------------------------------------------------------
(* Value domains                                                           *)

Ids == {"a", "b"}                       \* video ids the hub may announce
NoId == "none"                          \* an entry without yt:videoId
AllChats == <<"A", "B", "C", "D">>      \* destination identifiers
Webhooks == {"w1", "w2"}
Manual == "m"
Procs == Webhooks \cup {Manual}

VARIABLES
  chatIds,     \* config.telegram.chatIds, fixed at start-up
  active,      \* the handlers that can run in this behaviour
  hub,         \* the request bodies the hub may POST in this behaviour
  store,       \* Redis: id -> seconds its key has left to live, 0: no key
  phase,       \* the clock: which of its two alternating steps comes next
  pc,          \* position of each handler
  kind,        \* the kind of body a webhook handler is serving
  todo,        \* entries of the payload not yet started
  ent,         \* the entry being processed / last processed, with its record
  status,      \* HTTP status answered (0: none yet)
  markAge,     \* history: seconds since the latest successful mark of an
               \*   id (-1: never marked), saturating at TTL_SECONDS
  fanAge,      \* history: seconds since the latest fan-out initiation for
               \*   an id (-1: none), saturating at TTL_SECONDS
  delivery,    \* fan-out component run on its own: inputs and full outcome
  probe,       \* another component called on its own: inputs and result
  app,         \* the Application object and the process it runs in
  hist         \* history, kept only where a behaviour is followed entry by
               \*   entry: each request's payload, the entries it has
               \*   finished, and the ids skipped for want of the tag

vars == <<chatIds, active, hub, store, phase, pc, kind, todo, ent, status,
          markAge, fanAge, delivery, probe, app, hist>>

----------------------------------------------------------------------------
(* Tag filter: services/live-detector.ts                                   *)
(* A description is a sequence of characters.                              *)

WordChars == {"l", "i", "v", "e", "L", "I", "V", "E", "s", "x", "1", "_"}

IsWordChar(c) == c \in WordChars

ToLower(c) ==
  CASE c = "L" -> "l"
    [] c = "I" -> "i"
    [] c = "V" -> "v"
    [] c = "E" -> "e"
    [] OTHER -> c

LIVE_TAG == <<"#", "l", "i", "v", "e">>

\* variant: the i flag is missing
MatchesAt_CaseSensitive(d, k) ==
  /\ k + Len(LIVE_TAG) - 1 <= Len(d)
  /\ \A j \in 1..Len(LIVE_TAG) : d[k + j - 1] = LIVE_TAG[j]
  /\ \/ k + Len(LIVE_TAG) > Len(d)
     \/ ~IsWordChar(d[k + Len(LIVE_TAG)])

\* variant: the \b is missing
MatchesAt_NoBoundary(d, k) ==
  /\ k + Len(LIVE_TAG) - 1 <= Len(d)
  /\ \A j \in 1..Len(LIVE_TAG) : ToLower(d[k + j - 1]) = LIVE_TAG[j]

\* /#live\b/i matched at position k: the five characters, case-folded, then
\* a word boundary after the final word character "e"
MatchesAt(d, k) ==
  /\ k + Len(LIVE_TAG) - 1 <= Len(d)
  /\ \A j \in 1..Len(LIVE_TAG) : ToLower(d[k + j - 1]) = LIVE_TAG[j]
  /\ \/ k + Len(LIVE_TAG) > Len(d)
     \/ ~IsWordChar(d[k + Len(LIVE_TAG)])

ContainsLiveTag(d) == \E k \in 1..Len(d) : MatchesAt(d, k)

\* shouldNotifyForVideo: the try block returns hasLiveTag
ShouldNotifyForVideo(meta) == ContainsLiveTag(meta.description)

\* descriptions the platform may return for a video
Descriptions ==
  { <<"x", " ", "#", "L", "i", "v", "e", "!">>,
    <<"#", "l", "i", "v", "e", "s">>,
    <<"x">> }

\* descriptions the tag filter is called with on its own: a word, written
\* in any letter case or cut short, with up to MaxPad characters on each side
PadChars == {"x", "_", " ", "!", "#"}

Pads == UNION { [1..n -> PadChars] : n \in 0..MaxPad }

TagWords ==
  { <<"#", l, i, v, e>> :
      l \in {"l", "L"}, i \in {"i", "I"}, v \in {"v", "V"}, e \in {"e", "E"} }
  \cup { <<"#", "l", "i", "v">>, <<"l", "i", "v", "e">>, <<>> }

PaddedWords == { pre \o w \o post : pre \in Pads, w \in TagWords, post \in Pads }

----------------------------------------------------------------------------
(* Metadata fetcher: services/youtube.ts                                   *)
(* One response of the platform API to one request.  retryAfter is the     *)
(* set holding the retry-after header's value, empty when there is none.   *)

Responses ==
  { [kind |-> "ok",    retryAfter |-> {}],     \* 200 with one item
    [kind |-> "empty", retryAfter |-> {}],     \* 200 with no items
    [kind |-> "error", retryAfter |-> {}],     \* network error / 5xx
    [kind |-> "429",   retryAfter |-> {}],     \* rate limited, no header
    [kind |-> "429",   retryAfter |-> {5}] }   \* rate limited, retry-after: 5

ResponseSeqs == [1..YT_MAX_RETRIES -> Responses]

Ok == [kind |-> "ok", retryAfter |-> {}]
Empty == [kind |-> "empty", retryAfter |-> {}]
Err == [kind |-> "error", retryAfter |-> {}]
Limited == [kind |-> "429", retryAfter |-> {}]

\* the answer sequences the controller is run against: success or no item
\* at each attempt, and exhaustion by errors and by rate limiting
FetchScenarios ==
  { <<Ok, Ok, Ok>>, <<Err, Ok, Ok>>, <<Limited, Err, Ok>>,
    <<Empty, Ok, Ok>>, <<Err, Err, Err>>, <<Err, Limited, Limited>> }

\* const retryAfter = headers['retry-after'] || RETRY_DELAY_MS;
\* const delay = parseInt(retryAfter, 10) * 1000 || RETRY_DELAY_MS * attempt;
RateLimitDelay(resp, attempt) ==
  LET retryAfter == IF resp.retryAfter = {} THEN YT_RETRY_DELAY_MS
                    ELSE CHOOSE s \in resp.retryAfter : TRUE
      scaled == retryAfter * 1000
  IN IF scaled /= 0 THEN scaled ELSE YT_RETRY_DELAY_MS * attempt

\* variant: attempt < MAX_RETRIES - 1, no sleep before the last attempt
RECURSIVE RetryLoop_SleepOffByOne(_, _, _)
RetryLoop_SleepOffByOne(rs, attempt, delays) ==
  IF attempt > YT_MAX_RETRIES
  THEN [threw |-> TRUE, resp |-> rs[YT_MAX_RETRIES],
        requests |-> YT_MAX_RETRIES, delays |-> delays]
  ELSE IF rs[attempt].kind \in {"ok", "empty"}
  THEN [threw |-> FALSE, resp |-> rs[attempt],
        requests |-> attempt, delays |-> delays]
  ELSE IF rs[attempt].kind = "429"
  THEN RetryLoop_SleepOffByOne(rs, attempt + 1,
                 Append(delays, RateLimitDelay(rs[attempt], attempt)))
  ELSE IF attempt < YT_MAX_RETRIES - 1
  THEN RetryLoop_SleepOffByOne(rs, attempt + 1,
                 Append(delays, YT_RETRY_DELAY_MS * attempt))
  ELSE RetryLoop_SleepOffByOne(rs, attempt + 1, delays)

\* the for loop of makeRequestWithRetry from `attempt` on, `delays` being
\* the sleeps made so far
RECURSIVE RetryLoop(_, _, _)
RetryLoop(rs, attempt, delays) ==
  IF attempt > YT_MAX_RETRIES
  THEN [threw |-> TRUE, resp |-> rs[YT_MAX_RETRIES],
        requests |-> YT_MAX_RETRIES, delays |-> delays]
  ELSE IF rs[attempt].kind \in {"ok", "empty"}
  THEN [threw |-> FALSE, resp |-> rs[attempt],
        requests |-> attempt, delays |-> delays]
  ELSE IF rs[attempt].kind = "429"
  THEN RetryLoop(rs, attempt + 1,
                 Append(delays, RateLimitDelay(rs[attempt], attempt)))
  ELSE IF attempt < YT_MAX_RETRIES
  THEN RetryLoop(rs, attempt + 1, Append(delays, YT_RETRY_DELAY_MS * attempt))
  ELSE RetryLoop(rs, attempt + 1, delays)

MakeRequestWithRetry(rs) == RetryLoop(rs, 1, <<>>)

\* getVideoMetadata: null when the request threw or no item came back
GetVideoMetadata(videoId, rs, d) ==
  LET r == MakeRequestWithRetry(rs)
  IN IF r.threw \/ r.resp.kind = "empty"
     THEN [found |-> FALSE, id |-> videoId, description |-> <<>>]
     ELSE [found |-> TRUE, id |-> videoId, description |-> d]

----------------------------------------------------------------------------
(* Delivery fan-out: services/telegram.ts                                  *)
(* outs[k] tells whether the k-th sendMessage to a chat succeeds.          *)

AttemptOutcomes == [1..TG_MAX_RETRIES -> BOOLEAN]

\* the outcomes the controller is run against: a destination that takes
\* the message at once, on the last attempt, or never
SendScenarios ==
  { <<TRUE, TRUE, TRUE>>, <<FALSE, FALSE, TRUE>>, <<FALSE, FALSE, FALSE>> }

\* variant: sleeps after every failed attempt, the last one included
RECURSIVE SendLoop_SleepAfterLast(_, _, _, _)
SendLoop_SleepAfterLast(chatId, outs, attempt, delays) ==
  IF attempt > TG_MAX_RETRIES
  THEN [success |-> FALSE, chatId |-> chatId,
        attempts |-> TG_MAX_RETRIES, delays |-> delays]
  ELSE IF outs[attempt]
  THEN [success |-> TRUE, chatId |-> chatId,
        attempts |-> attempt, delays |-> delays]
  ELSE SendLoop_SleepAfterLast(chatId, outs, attempt + 1,
                               Append(delays, TG_RETRY_DELAY_MS * attempt))

\* the for loop of sendToChatWithRetry from `attempt` on
RECURSIVE SendLoop(_, _, _, _)
SendLoop(chatId, outs, attempt, delays) ==
  IF attempt > TG_MAX_RETRIES
  THEN [success |-> FALSE, chatId |-> chatId,
        attempts |-> TG_MAX_RETRIES, delays |-> delays]
  ELSE IF outs[attempt]
  THEN [success |-> TRUE, chatId |-> chatId,
        attempts |-> attempt, delays |-> delays]
  ELSE IF attempt < TG_MAX_RETRIES
  THEN SendLoop(chatId, outs, attempt + 1,
                Append(delays, TG_RETRY_DELAY_MS * attempt))
  ELSE SendLoop(chatId, outs, attempt + 1, delays)

SendToChatWithRetry(chatId, outs) == SendLoop(chatId, outs, 1, <<>>)

\* variant: gives up at the first destination that failed all its attempts
RECURSIVE FanOutLoop_StopOnFailure(_, _, _, _)
FanOutLoop_StopOnFailure(chats, outs, i, results) ==
  IF i > Len(chats) THEN results
  ELSE LET r == SendToChatWithRetry(chats[i], outs[i])
       IN IF r.success
          THEN FanOutLoop_StopOnFailure(chats, outs, i + 1, Append(results, r))
          ELSE Append(results, r)

\* the for..of loop of sendLivestreamNotification from destination i on
RECURSIVE FanOutLoop(_, _, _, _)
FanOutLoop(chats, outs, i, results) ==
  IF i > Len(chats) THEN results
  ELSE FanOutLoop(chats, outs, i + 1,
                  Append(results, SendToChatWithRetry(chats[i], outs[i])))

SendLivestreamNotification(chats, outs) == FanOutLoop(chats, outs, 1, <<>>)

\* what a NotificationResult carries: chatId and success
\* (attempts and delays are bookkeeping of the model)
AsResult(r) == [chatId |-> r.chatId, success |-> r.success]

\* variant: a destination is left one attempt early
AfterAttempt_LeaveEarly(dest, attempt, ok) ==
  IF ok \/ attempt >= TG_MAX_RETRIES - 1
  THEN [dest |-> dest + 1, attempt |-> 1]
  ELSE [dest |-> dest, attempt |-> attempt + 1]

\* variant: a success does not leave the retry loop
AfterAttempt_RetryOnSuccess(dest, attempt, ok) ==
  IF attempt >= TG_MAX_RETRIES
  THEN [dest |-> dest + 1, attempt |-> 1]
  ELSE [dest |-> dest, attempt |-> attempt + 1]

\* the two nested loops seen one sendMessage call at a time: which call
\* follows the call numbered `attempt` to destination `dest`.  A success
\* returns from sendToChatWithRetry and the last failure falls out of its
\* loop, and then the for..of loop takes the next chat id
AfterAttempt(dest, attempt, ok) ==
  IF ok \/ attempt >= TG_MAX_RETRIES
  THEN [dest |-> dest + 1, attempt |-> 1]
  ELSE [dest |-> dest, attempt |-> attempt + 1]

\* a fan-out under way: the call to make next, the sendMessage calls made
\* so far and the results pushed so far
FanOutStart == [dest |-> 1, attempt |-> 1, calls |-> <<>>, results |-> <<>>]

----------------------------------------------------------------------------
(* Duplicate suppressor: utils/deduplication.ts over Redis                 *)

\* variant: looks the id up under a key that is never written
Exists_WrongKey(s, id) == FALSE

\* redis.exists(key) = 1
Exists(s, id) == s[id] > 0

\* variant: the key gets one second too many to live
SetEx_OffByOne(s, id) == [s EXCEPT ![id] = TTL_SECONDS + 1]

\* redis.setex(key, TTL_SECONDS, '1')
SetEx(s, id) == [s EXCEPT ![id] = TTL_SECONDS]

\* variant: the check is stubbed out
HasBeenNotified_Never(s, id, reachable) == FALSE

\* variant: result === 0 instead of result === 1
HasBeenNotified_Negated(s, id, reachable) ==
  IF reachable THEN ~Exists(s, id) ELSE FALSE

\* variant: fails closed, a store error counts as "already notified"
HasBeenNotified_FailClosed(s, id, reachable) ==
  IF reachable THEN Exists(s, id) ELSE TRUE

\* hasBeenNotified: the store's answer, or false when the query throws
HasBeenNotified(s, id, reachable) ==
  IF reachable THEN Exists(s, id) ELSE FALSE

\* variant: a failed write is repeated until it gets through
MarkAsNotified_WriteAnyway(s, id, reachable) == SetEx(s, id)

\* markAsNotified: the write, or nothing when it throws (logged, swallowed)
MarkAsNotified(s, id, reachable) ==
  IF reachable THEN SetEx(s, id) ELSE s

\* d seconds pass: Redis counts every key's time to live down and drops
\* the key when it reaches 0
Expire(s, d) == [i \in Ids |-> IF s[i] > d THEN s[i] - d ELSE 0]

\* d seconds pass for an age; ages of 24 h and more are all alike
Older(age, d) ==
  IF age < 0 THEN age
  ELSE IF age + d >= TTL_SECONDS THEN TTL_SECONDS ELSE age + d

----------------------------------------------------------------------------
(* Feed ingestion controller: handlers/websub.ts                           *)

\* entry lists a feed can carry: each entry has a video id or lacks one
EntrySeqs ==
  UNION { [1..n -> Ids \cup {NoId}] : n \in 1..MaxEntries }

\* request bodies: "unreadable" makes c.req.text() reject, "garbage" is not
\* XML, "other" is XML with another root, "bare" is a feed with no entry
Bodies ==
  { [kind |-> k, entries |-> <<>>] :
      k \in {"unreadable", "garbage", "other", "bare"} }
  \cup { [kind |-> "feed", entries |-> es] : es \in EntrySeqs }

\* parseXmlPayload: null when xml2js rejects, else the parsed document
ParseXmlPayload(b) ==
  IF b.kind = "garbage"
  THEN [isNull |-> TRUE, hasFeed |-> FALSE, entry |-> <<>>]
  ELSE [isNull |-> FALSE, hasFeed |-> b.kind \in {"bare", "feed"},
        entry |-> b.entries]

\* variant: a feed is also refused when one of its entries has no video id
IsInvalidPayload_RequiresIds(parsed) ==
  \/ parsed.isNull \/ ~parsed.hasFeed \/ parsed.entry = <<>>
  \/ \E i \in 1..Len(parsed.entry) : parsed.entry[i] = NoId

\* variant: the test for feed.entry is left out
IsInvalidPayload_NoEntryCheck(parsed) == parsed.isNull \/ ~parsed.hasFeed

\* !parsedData || !parsedData.feed || !parsedData.feed.entry
IsInvalidPayload(parsed) ==
  parsed.isNull \/ ~parsed.hasFeed \/ parsed.entry = <<>>

\* the X-Hub-Signature header of a POST: absent, the HMAC of the body
\* under the configured secret, or anything else
NoSignature == "(absent)"
Signatures == {NoSignature, "sha1=valid", "sha1=invalid"}

\* variant: a request whose signature is not the HMAC of its body is refused
Received_Verified(b, signature) ==
  IF b.kind = "unreadable"
  THEN [status |-> 500, pc |-> "done", todo |-> <<>>]
  ELSE IF signature /= "sha1=valid"
  THEN [status |-> 400, pc |-> "done", todo |-> <<>>]
  ELSE LET parsed == ParseXmlPayload(b)
       IN IF IsInvalidPayload(parsed)
          THEN [status |-> 400, pc |-> "done", todo |-> <<>>]
          ELSE [status |-> 0, pc |-> "loop", todo |-> parsed.entry]

\* handleWebSubCallback up to the for loop: the header is read, the body is
\* read (a rejection goes to the outer catch), the block under
\* `if (webhookSecret && signature)` only logs, the body is parsed and its
\* structure checked.  What the request is answered at once, or the
\* entries the loop starts on
Received(b, signature) ==
  IF b.kind = "unreadable"
  THEN [status |-> 500, pc |-> "done", todo |-> <<>>]
  ELSE LET parsed == ParseXmlPayload(b)
       IN IF IsInvalidPayload(parsed)
          THEN [status |-> 400, pc |-> "done", todo |-> <<>>]
          ELSE [status |-> 0, pc |-> "loop", todo |-> parsed.entry]

\* GET /websub.  A query parameter the request does not carry is NoParam.
NoParam == "(absent)"

\* TOPIC_URL, for the configured channel id
TOPIC_URL == "https://www.youtube.com/xml/feeds/videos.xml?channel_id=UC1"

HubModes == {NoParam, "subscribe", "unsubscribe", "Subscribe"}

HubTopics ==
  {NoParam, TOPIC_URL, "",
   "https://www.youtube.com/xml/feeds/videos.xml?channel_id=UC2"}

HubChallenges == {NoParam, "", "xyz123"}

\* variant: the topic is not compared
HandleSubscriptionVerification_AnyTopic(mode, topic, challenge) ==
  IF mode = "subscribe"
  THEN [status |-> 200, body |-> IF challenge = NoParam THEN "" ELSE challenge]
  ELSE [status |-> 400, body |-> "Invalid request"]

\* handleSubscriptionVerification: c.text(challenge || '', 200) or
\* c.text('Invalid request', 400)
HandleSubscriptionVerification(mode, topic, challenge) ==
  IF mode = "subscribe" /\ topic = TOPIC_URL
  THEN [status |-> 200, body |-> IF challenge = NoParam THEN "" ELSE challenge]
  ELSE [status |-> 400, body |-> "Invalid request"]

\* the record kept for the entry a handler is processing
NewEntry(videoId) ==
  [ vid      |-> videoId,
    outcome  |-> "none",     \* none, noid, dup, nometa, notag, sent,
                             \*   threw
    queries  |-> 0,          \* existence queries made for the entry
    already  |-> FALSE,      \* what hasBeenNotified returned
    chkErr   |-> FALSE,      \* the existence query failed
    chkLive  |-> FALSE,      \* a successful mark was in force at the query
    fetches  |-> 0,          \* getVideoMetadata calls
    fanned   |-> FALSE,      \* sendLivestreamNotification was called
    near     |-> FALSE,      \* ... less than 24 h after the previous call
                             \*     for the same id
    results  |-> <<>>,       \* the NotificationResult list it returned
    allFailed |-> FALSE,     \* ... and successfulSends was 0
    marks    |-> 0,          \* markAsNotified calls
    markOk   |-> FALSE ]     \* the mark's write succeeded

\* the locals of processFeedEntry die when the entry is done
Finished(e, how) ==
  [e EXCEPT !.outcome = how, !.chkErr = FALSE, !.chkLive = FALSE,
            !.near = FALSE, !.results = <<>>]

NoProbe == [op |-> "none"]    \* no such call in this behaviour

\* history off / history on and empty
NoHist == [on |-> FALSE]

NoCommand == [outcome |-> "none"]   \* no /notify command was handled yet

EmptyHist ==
  [on |-> TRUE,
   cmd |-> NoCommand,                       \* the last /notify command
   payload |-> [p \in Webhooks |-> <<>>],   \* entries of the request's feed
   log |-> [p \in Webhooks |-> <<>>],       \* entries processFeedEntry returned from
   skipped |-> {},                          \* skipped for want of the tag and
                                            \*   not marked since
   requests |-> <<>>,                       \* not counted
   signature |-> <<>>]                      \* not kept

\* ... and the metadata requests made for each handler's entry are counted
CountingHist == [EmptyHist EXCEPT !.requests = [p \in Procs |-> 0]]

\* ... and the X-Hub-Signature header of each request is kept
SignedHist == [EmptyHist EXCEPT !.signature = [p \in Webhooks |-> NoSignature]]

\* a request came with this X-Hub-Signature header
Signed(h, p, signature) ==
  IF h.on /\ p \in DOMAIN h.signature
  THEN [h EXCEPT !.signature[p] = signature] ELSE h

\* the headers the requests of a behaviour come with: every kind where the
\* header is kept, and none (the hub was given no secret) where it is not
SignaturesSent(h) ==
  IF h.on /\ DOMAIN h.signature /= {} THEN Signatures ELSE {NoSignature}

\* a handler takes up a new entry
Taken(h, p) ==
  IF h.on /\ p \in DOMAIN h.requests THEN [h EXCEPT !.requests[p] = 0] ELSE h

\* makeRequestWithRetry has made n requests for the entry of handler p
Requested(h, p, n) ==
  IF h.on /\ p \in DOMAIN h.requests THEN [h EXCEPT !.requests[p] = @ + n]
  ELSE h

\* a request starts on a payload
Started(h, p, entries) ==
  IF h.on THEN [h EXCEPT !.payload[p] = entries, !.log[p] = <<>>] ELSE h

\* processFeedEntry returns from entry e
Logged(h, p, e) ==
  IF h.on /\ p \in Webhooks
  THEN [h EXCEPT !.log[p] =
          Append(@, [vid |-> e.vid, outcome |-> e.outcome,
                     fetches |-> e.fetches, fanned |-> e.fanned])]
  ELSE h

\* id x is skipped for want of the tag / marked
Skipped(h, x) == IF h.on THEN [h EXCEPT !.skipped = @ \cup {x}] ELSE h
Marked(h, x) == IF h.on THEN [h EXCEPT !.skipped = @ \ {x}] ELSE h

\* the /notify handler has dealt with a command of sender userId
Commanded(h, userId, lookups, outcome) ==
  IF h.on
  THEN [h EXCEPT !.cmd = [userId |-> userId, lookups |-> lookups,
                          outcome |-> outcome]]
  ELSE h

NoDelivery == [chats |-> <<>>, outs |-> <<>>, results |-> <<>>]

\* an entry is in flight: its handler is between the existence check and
\* the return of processFeedEntry
InFlight(p) == pc[p] \in {"fetch", "send", "mark"}

\* a successful mark of id is less than 24 h old
MarkInForce(id) == markAge[id] >= 0 /\ markAge[id] < TTL_SECONDS

\* a fan-out for id was initiated less than 24 h ago
FannedOutLately(id) == fanAge[id] >= 0 /\ fanAge[id] < TTL_SECONDS

\* variant: an entry given up after the fetch is tried again by the controller
AfterEntry_TryAgain(p) ==
  IF p = Manual THEN "idle" ELSE IF pc[p] = "fetch" THEN "fetch" ELSE "loop"

\* variant: an entry skipped after the fetch is marked as notified all the same
AfterEntry_MarkSkipped(p) ==
  IF p = Manual THEN "idle" ELSE IF pc[p] = "fetch" THEN "mark" ELSE "loop"

\* variant: an entry skipped before the fetch ends the whole request
AfterEntry_Abort(p) ==
  IF p = Manual THEN "idle" ELSE IF pc[p] = "loop" THEN "done" ELSE "loop"

\* variant: the manual trigger marks a video it gave up on
AfterEntry_ManualMarks(p) ==
  IF p = Manual THEN (IF pc[p] = "fetch" THEN "mark" ELSE "idle") ELSE "loop"

\* where a handler goes when processFeedEntry / sendManualNotification returns
AfterEntry(p) == IF p = Manual THEN "idle" ELSE "loop"

\* TELEGRAM_CHAT_IDS.split(','): at least one chat, each a non-empty string
ChatConfigs(max) == { SubSeq(AllChats, 1, n) : n \in 1..max }

\* the video ids that occur in a set of request bodies
IdsIn(bs) ==
  UNION { { b.entries[i] : i \in 1..Len(b.entries) } : b \in bs } \ {NoId}

----------------------------------------------------------------------------
(* Notification formatter: services/telegram.ts                            *)
(* A text is a sequence of characters; the words of the template are       *)
(* shortened to a letter each.                                             *)

Platforms == <<"youtube", "x", "kick", "twitch", "instagram", "linkedin">>

RECURSIVE Concat(_)
Concat(parts) ==
  IF parts = <<>> THEN <<>> ELSE Head(parts) \o Concat(Tail(parts))

ANCHOR_OPEN == <<"<", "a", " ", "h", "r", "e", "f", "=", "\"">>   \* <a href="
ANCHOR_MID == <<"\"", ">">>                                     \* ">
ANCHOR_CLOSE == <<"<", "/", "a", ">">>                           \* </a>

\* one line of the link list: the platform's name, then the anchor
LinkLine(i, url) ==
  <<"-", "N", ":", " ">> \o ANCHOR_OPEN \o url \o ANCHOR_MID
    \o <<"W", "'", "I">> \o ANCHOR_CLOSE \o <<"\n">>

\* formatNotificationMessage: the template with the title, the date and
\* the six links put in as they are
FormatNotificationMessage(title, date, platforms) ==
  <<"<", "b", ">", "Y", "!", "<", "/", "b", ">", "\n">>
    \o <<"<", "b", ">">> \o title \o <<"<", "/", "b", ">", "\n">>
    \o date \o <<"\n">>
    \o <<"<", "b", ">", "L", ":", "<", "/", "b", ">", "\n">>
    \o Concat([i \in 1..Len(Platforms) |-> LinkLine(i, platforms[Platforms[i]])])
    \o <<"C", "!", " ", "#", "t">>

\* an anchor opens at position k of the text
OpensAt(text, k) ==
  /\ k + Len(ANCHOR_OPEN) - 1 <= Len(text)
  /\ SubSeq(text, k, k + Len(ANCHOR_OPEN) - 1) = ANCHOR_OPEN

\* the least position of a set of positions of the text (Len + 1: none)
FirstOf(text, S) ==
  IF S = {} THEN Len(text) + 1 ELSE CHOOSE j \in S : \A i \in S : j <= i

\* the links read back from a rendered message: the href values of its
\* anchors, in the order of the text
RECURSIVE ParseLinks(_, _)
ParseLinks(text, k) ==
  LET open == FirstOf(text, { j \in k..Len(text) : OpensAt(text, j) })
      from == open + Len(ANCHOR_OPEN)
      to == FirstOf(text, { j \in from..Len(text) : text[j] = "\"" })
  IN IF open > Len(text) THEN <<>>
     ELSE <<SubSeq(text, from, to - 1)>> \o ParseLinks(text, to + 1)

\* the titles and links the formatter is tried on: plain ones, a link with
\* a double quote in it, a title that carries an anchor of its own
Urls == { <<"u">>, <<"v">>, <<"u", "\"", "v">> }

Titles == { <<"T">>, <<"T", "&", "\"">>,
            ANCHOR_OPEN \o <<"v">> \o ANCHOR_MID \o <<"T">> \o ANCHOR_CLOSE }

LinkSets ==
  [ youtube : Urls, x : Urls, kick : Urls, twitch : Urls, instagram : Urls,
    linkedin : Urls ]

----------------------------------------------------------------------------
(* Configuration: config/index.ts                                          *)
(* The environment gives each variable a string or leaves it unset.        *)

Unset == "(unset)"

requiredEnvVars ==
  <<"YOUTUBE_CHANNEL_ID", "YOUTUBE_API_KEY", "TELEGRAM_BOT_TOKEN",
    "TELEGRAM_CHAT_IDS", "PLATFORM_LINKS", "PORT", "WEBHOOK_SECRET",
    "LOG_LEVEL", "REDIS_URL">>

EnvVars == { requiredEnvVars[i] : i \in 1..Len(requiredEnvVars) }

GOOD_LINKS == "{six urls}"   \* a JSON object with a URL for each platform

\* the values tried for a variable
EnvValues(v) ==
  {Unset, ""} \cup
  CASE v = "PORT" -> {"8080", "abc"}
    [] v = "LOG_LEVEL" -> {"debug", "verbose"}
    [] v = "PLATFORM_LINKS" -> {GOOD_LINKS, "not json"}
    [] v = "TELEGRAM_CHAT_IDS" -> {"c1,c2", "c1,"}
    [] OTHER -> {"x"}

Envs ==
  [ YOUTUBE_CHANNEL_ID : EnvValues("YOUTUBE_CHANNEL_ID"),
    YOUTUBE_API_KEY : EnvValues("YOUTUBE_API_KEY"),
    TELEGRAM_BOT_TOKEN : EnvValues("TELEGRAM_BOT_TOKEN"),
    TELEGRAM_CHAT_IDS : EnvValues("TELEGRAM_CHAT_IDS"),
    PLATFORM_LINKS : EnvValues("PLATFORM_LINKS"),
    PORT : EnvValues("PORT"),
    WEBHOOK_SECRET : EnvValues("WEBHOOK_SECRET"),
    LOG_LEVEL : EnvValues("LOG_LEVEL"),
    REDIS_URL : EnvValues("REDIS_URL") ]

\* parseInt(value, 10); NaN is 0 here, which the schema rejects like NaN
ParseInt(value) == IF value = "8080" THEN 8080 ELSE 0

\* value.split(',').map(id => id.trim())
SplitIds(value) ==
  CASE value = "c1,c2" -> <<"c1", "c2">>
    [] value = "c1," -> <<"c1", "">>
    [] OTHER -> <<value>>

\* variant: only an unset variable counts as missing
IsMissing_OnlyUnset(value) == value = Unset

\* !process.env[envVar]: unset, or set to the empty string
IsMissing(value) == value \in {Unset, ""}

\* requiredEnvVars.filter(envVar => !process.env[envVar])
MissingEnvVars(env) ==
  SelectSeq(requiredEnvVars, LAMBDA v : IsMissing(env[v]))

\* appConfigSchema.parse(config) does not throw
SchemaAccepts(config) ==
  /\ config.channelId /= "" /\ config.apiKey /= "" /\ config.botToken /= ""
  /\ \A i \in 1..Len(config.chatIds) : config.chatIds[i] /= ""
  /\ config.port >= 1 /\ config.port <= 65535
  /\ config.webhookSecret /= ""
  /\ config.level \in {"error", "warn", "info", "debug"}
  /\ config.redisUrl /= ""

\* loadConfig: the configuration, or the error it throws
LoadConfig(env) ==
  LET missing == MissingEnvVars(env)
      config == [channelId |-> env["YOUTUBE_CHANNEL_ID"],
                 apiKey |-> env["YOUTUBE_API_KEY"],
                 botToken |-> env["TELEGRAM_BOT_TOKEN"],
                 chatIds |-> SplitIds(env["TELEGRAM_CHAT_IDS"]),
                 port |-> ParseInt(env["PORT"]),
                 webhookSecret |-> env["WEBHOOK_SECRET"],
                 level |-> env["LOG_LEVEL"],
                 redisUrl |-> env["REDIS_URL"]]
  IN IF missing /= <<>>
     THEN [ok |-> FALSE,
           error |-> "Missing required environment variables",
           missing |-> missing]
     ELSE IF env["PLATFORM_LINKS"] /= GOOD_LINKS
     THEN [ok |-> FALSE, error |-> "Invalid PLATFORM_LINKS format",
           missing |-> <<>>]
     ELSE IF ~SchemaAccepts(config)
     THEN [ok |-> FALSE, error |-> "ZodError", missing |-> <<>>]
     ELSE [ok |-> TRUE, config |-> config]

----------------------------------------------------------------------------
\* no Application in this behaviour: the handlers are followed on their
\* own, in a process that is up
NoApp == [stage |-> "none"]

\* the process when start() is called: the modules are loaded, the store
\* client is constructed, nothing is registered or listening yet
AppStart ==
  [stage |-> "subscribe",      \* subscribe, bot, running, closing, exited
   handlers |-> FALSE,         \* setupGracefulShutdown has run
   isShuttingDown |-> FALSE,
   server |-> FALSE,           \* this.server is set
   redis |-> "open",           \* open, closed
   cause |-> "none",           \* what has ended or is ending the process
   code |-> -1,                \* exit status (-1: still running)
   subscription |-> "none",    \* how the hub request went: none, ok,
                               \*   rejected (answer not ok), failed (fetch
                               \*   threw)
   requests |-> 0,             \* requests sent to the hub
   bot |-> FALSE,              \* startBot was called
   shutdowns |-> 0,            \* calls of shutdown()
   stops |-> 0,                \* calls of server.stop()
   closes |-> 0,               \* calls of deduplicationService.close()
   ignored |-> FALSE]          \* the handler has turned an event away

\* the process is running / its HTTP server takes requests
Alive == app.stage /= "exited"
Listening == app.stage \in {"none", "running"}

Signals == {"SIGTERM", "SIGINT"}
Faults == {"uncaughtException", "unhandledRejection"}

\* what the runtime does with a signal or fault nobody listens for
DefaultExit(event) ==
  CASE event = "SIGTERM" -> 143
    [] event = "SIGINT" -> 130
    [] OTHER -> 1

\* variant: a shutdown always reports success
ExitCode_Zero(isShuttingDown) == 0

\* process.exit(this.isShuttingDown ? 0 : 1)
ExitCode(isShuttingDown) == IF isShuttingDown THEN 0 ELSE 1

Exited(a, code) == [a EXCEPT !.stage = "exited", !.code = code]

\* Application.shutdown up to its await: server.stop() when a server is
\* set, then deduplicationService.close() is called; an exception of
\* server.stop() goes to the catch block and the finally block exits
Shutdown(a, stopOk) ==
  LET b == [a EXCEPT !.shutdowns = @ + 1,
                     !.stops = IF a.server THEN @ + 1 ELSE @]
  IN IF a.server /\ ~stopOk
     THEN Exited(b, ExitCode(a.isShuttingDown))
     ELSE [b EXCEPT !.stage = "closing", !.closes = @ + 1]

\* variant: the handler never turns an event away
AlreadyShuttingDown_Never(isShuttingDown) == FALSE

\* if (this.isShuttingDown) { warn; return; }
AlreadyShuttingDown(isShuttingDown) == isShuttingDown

HubAnswers == {"ok", "rejected", "failed"}

\* variant: an unsuccessful subscription is thrown on to start()
SubscribeToWebSub_Rethrows(answer) ==
  [requests |-> 1, threw |-> answer /= "ok"]

\* subscribeToWebSub: one POST to the hub; response.ok or not, it logs one
\* line; an exception of fetch is caught and logged.  The requests it has
\* made and whether it threw
SubscribeToWebSub(answer) == [requests |-> 1, threw |-> FALSE]

TypeOK ==
  /\ chatIds \in ChatConfigs(MaxChats) \cup ChatConfigs(MaxDests)
  /\ active \subseteq Procs
  /\ hub \subseteq Bodies
  /\ store \in [Ids -> 0..TTL_SECONDS]
  /\ phase \in {0, 1}
  /\ pc \in [Procs -> {"idle", "loop", "fetch", "send", "mark", "done"}]
  /\ status \in [Procs -> {0, 200, 400, 500}]
  /\ markAge \in [Ids -> -1..TTL_SECONDS]
  /\ fanAge \in [Ids -> -1..TTL_SECONDS]

InitCommon ==
  /\ store = [i \in Ids |-> 0]
  /\ phase = 0
  /\ pc = [p \in Procs |-> "idle"]
  /\ kind = [p \in Procs |-> "none"]
  /\ todo = [p \in Procs |-> <<>>]
  /\ ent = [p \in Procs |-> NewEntry(NoId)]
  /\ status = [p \in Procs |-> 0]
  /\ markAge = [i \in Ids |-> -1]
  /\ fanAge = [i \in Ids |-> -1]
  /\ delivery = NoDelivery

\* webhook POSTs with every kind of body, handled one at a time
Init ==
  /\ InitCommon
  /\ chatIds \in ChatConfigs(MaxChats)
  /\ active = {"w1"}
  /\ hub = Bodies
  /\ probe = NoProbe
  /\ app = NoApp
  /\ hist = NoHist

\* one video announced again and again: either two webhook requests in
\* flight at once, or a webhook request next to the /notify command
InitManual ==
  /\ InitCommon
  /\ chatIds \in ChatConfigs(MaxChats)
  /\ active \in {{"w1", "w2"}, {"w1", Manual}}
  /\ hub = {[kind |-> "feed", entries |-> <<"a">>]}
  /\ probe = NoProbe
  /\ app = NoApp
  /\ hist = NoHist

\* feeds that announce one video, in every mix of entries with and without
\* its id, one request at a time to one destination, followed entry by entry
InitPayload ==
  /\ InitCommon
  /\ chatIds \in ChatConfigs(1)
  /\ active = {"w1"}
  /\ hub = {b \in Bodies : /\ b.kind = "feed"
                           /\ \A i \in 1..Len(b.entries) :
                                b.entries[i] \in {"a", NoId}}
  /\ probe = NoProbe
  /\ app = NoApp
  /\ hist = EmptyHist

\* the same feeds, to one destination or several, every sendMessage call a
\* step of its own
InitOrder ==
  /\ InitCommon
  /\ chatIds \in ChatConfigs(MaxChats)
  /\ active = {"w1"}
  /\ hub = {b \in Bodies : /\ b.kind = "feed"
                           /\ \A i \in 1..Len(b.entries) :
                                b.entries[i] \in {"a", NoId}}
  /\ probe = NoProbe
  /\ app = NoApp
  /\ hist = EmptyHist

\* the /notify command on its own, sent again and again for one video
InitNotify ==
  /\ InitCommon
  /\ chatIds \in ChatConfigs(MaxChats)
  /\ active = {Manual}
  /\ hub = {[kind |-> "feed", entries |-> <<"a">>]}
  /\ probe = NoProbe
  /\ app = NoApp
  /\ hist = EmptyHist

\* the process from start() on, with webhook requests for one video
\* coming in while its server listens
InitApp ==
  /\ InitCommon
  /\ chatIds \in ChatConfigs(1)
  /\ active = {"w1"}
  /\ hub = {[kind |-> "feed", entries |-> <<"a">>]}
  /\ probe = NoProbe
  /\ app = AppStart
  /\ hist = NoHist

\* the configuration loaded from every environment
InitConfig ==
  /\ InitCommon
  /\ chatIds \in ChatConfigs(1)
  /\ active = {}
  /\ hub = {}
  /\ probe \in { [op |-> "loadConfig", env |-> env] : env \in Envs }
  /\ app = NoApp
  /\ hist = NoHist

\* the formatter called on every title and link set
InitFormat ==
  /\ InitCommon
  /\ chatIds \in ChatConfigs(1)
  /\ active = {}
  /\ hub = {}
  /\ probe \in { [op |-> "formatNotificationMessage", title |-> title,
                   platforms |-> platforms] :
                    title \in Titles, platforms \in LinkSets }
  /\ app = NoApp
  /\ hist = NoHist

\* statements inside an entry may throw: either feeds that announce one
\* video, followed entry by entry, or one announcement next to the /notify
\* command
InitFaulty ==
  /\ InitCommon
  /\ chatIds \in ChatConfigs(1)
  /\ \/ /\ active = {"w1"}
        /\ hub = {b \in Bodies : /\ b.kind = "feed"
                                 /\ \A i \in 1..Len(b.entries) :
                                      b.entries[i] \in {"a", NoId}}
        /\ hist = EmptyHist
     \/ /\ active = {"w1", Manual}
        /\ hub = {[kind |-> "feed", entries |-> <<"a">>]}
        /\ hist = NoHist
  /\ probe = NoProbe
  /\ app = NoApp

\* webhook POSTs with every kind of body that announces at most one video,
\* one request at a time to one destination, every request and sendMessage
\* call counted
InitLive ==
  /\ InitCommon
  /\ chatIds \in ChatConfigs(1)
  /\ active = {"w1"}
  /\ hub = {b \in Bodies : \A i \in 1..Len(b.entries) :
                              b.entries[i] \in {"a", NoId}}
  /\ probe = NoProbe
  /\ app = NoApp
  /\ hist = CountingHist

\* webhook POSTs with every kind of body that announces at most one video
\* and every kind of signature, one request at a time to one destination
InitSigned ==
  /\ InitCommon
  /\ chatIds \in ChatConfigs(1)
  /\ active = {"w1"}
  /\ hub = {b \in Bodies : \A i \in 1..Len(b.entries) :
                              b.entries[i] \in {"a", NoId}}
  /\ probe = NoProbe
  /\ app = NoApp
  /\ hist = SignedHist

\* the fan-out component on its own
InitSend ==
  /\ InitCommon
  /\ chatIds \in ChatConfigs(MaxDests)
  /\ active = {}
  /\ hub = {}
  /\ probe = NoProbe
  /\ app = NoApp
  /\ hist = NoHist

\* the calls made of the verification endpoint, the fetcher and the tag
\* filter: a GET with its query parameters, getVideoMetadata with the
\* answers the API will give, containsLiveTag with a description
Calls ==
  { [op |-> "GET", mode |-> mode, topic |-> topic, challenge |-> challenge] :
      mode \in HubModes, topic \in HubTopics, challenge \in HubChallenges }
  \cup { [op |-> "getVideoMetadata", rs |-> rs, d |-> LIVE_TAG] :
           rs \in ResponseSeqs }
  \cup { [op |-> "containsLiveTag", d |-> d] : d \in PaddedWords }

\* single calls of the verification endpoint, the fetcher and the tag filter
InitUnits ==
  /\ InitCommon
  /\ chatIds \in ChatConfigs(1)
  /\ active = {}
  /\ hub = {}
  /\ probe \in Calls
  /\ app = NoApp
  /\ hist = NoHist

\* handleWebSubCallback up to the for loop: read the body, parse it, check
\* its structure
ReceivePost(p, b, signature) ==
  /\ Listening
  /\ p \in Webhooks /\ p \in active
  /\ b \in hub
  /\ pc[p] \in {"idle", "done"}
  /\ kind' = [kind EXCEPT ![p] = b.kind]
  /\ ent' = [ent EXCEPT ![p] = NewEntry(NoId)]
  /\ LET r == Received(b, signature)
     IN /\ status' = [status EXCEPT ![p] = r.status]
        /\ pc' = [pc EXCEPT ![p] = r.pc]
        /\ todo' = [todo EXCEPT ![p] = r.todo]
  /\ hist' = Signed(Started(hist, p, b.entries), p, signature)
  /\ UNCHANGED app
  /\ UNCHANGED <<chatIds, active, hub, store, phase, markAge, fanAge,
                 delivery, probe>>

\* the for loop is over: return c.text('OK', 200)
Respond(p) ==
  /\ Alive
  /\ p \in Webhooks /\ p \in active
  /\ pc[p] = "loop" /\ todo[p] = <<>>
  /\ status' = [status EXCEPT ![p] = 200]
  /\ pc' = [pc EXCEPT ![p] = "done"]
  /\ UNCHANGED hist
  /\ UNCHANGED app
  /\ UNCHANGED <<chatIds, active, hub, store, phase, kind, todo, ent,
                 markAge, fanAge, delivery, probe>>

\* processFeedEntry from its start to the answer of hasBeenNotified:
\* skip an entry without id; query the store; skip when already notified
ProcessFeedEntry(p, reachable) ==
  /\ Alive
  /\ p \in Webhooks /\ p \in active
  /\ pc[p] = "loop" /\ todo[p] /= <<>>
  /\ todo' = [todo EXCEPT ![p] = Tail(todo[p])]
  /\ LET videoId == Head(todo[p])
     IN IF videoId = NoId
        THEN /\ ent' = [ent EXCEPT ![p] =
                          [NewEntry(NoId) EXCEPT !.outcome = "noid"]]
             /\ pc' = [pc EXCEPT ![p] = AfterEntry(p)]
             /\ hist' = Logged(Taken(hist, p), p,
                               [NewEntry(NoId) EXCEPT !.outcome = "noid"])
        ELSE LET alreadyNotified ==
                   HasBeenNotified(store, videoId, reachable)
                 e == [NewEntry(videoId) EXCEPT
                         !.queries = 1,
                         !.already = alreadyNotified,
                         !.chkErr = ~reachable,
                         !.chkLive = MarkInForce(videoId)]
             IN IF alreadyNotified
                THEN /\ ent' = [ent EXCEPT ![p] = [e EXCEPT !.outcome = "dup"]]
                     /\ pc' = [pc EXCEPT ![p] = AfterEntry(p)]
                     /\ hist' = Logged(Taken(hist, p), p,
                                       [e EXCEPT !.outcome = "dup"])
                ELSE /\ ent' = [ent EXCEPT ![p] = e]
                     /\ pc' = [pc EXCEPT ![p] = "fetch"]
                     /\ hist' = Taken(hist, p)
  /\ UNCHANGED app
  /\ UNCHANGED <<chatIds, active, hub, store, phase, kind, status,
                 markAge, fanAge, delivery, probe>>

\* variant: every sender is let in
IsAuthorizedUser_Everyone(userId) == TRUE

\* the /notify command: authorisation, channel lookup, then
\* sendManualNotification(latestVideo.id) up to its metadata fetch
IsAuthorizedUser(userId) == userId /= 0   \* !userId: undefined or 0

Notify(userId, videos) ==
  /\ Alive
  /\ Manual \in active
  /\ pc[Manual] = "idle"
  /\ IF ~IsAuthorizedUser(userId)
     THEN /\ UNCHANGED <<pc, ent>>
          /\ hist' = Commanded(hist, userId, 0, "denied")
     ELSE IF videos = <<>>
     THEN /\ UNCHANGED <<pc, ent>>
          /\ hist' = Commanded(hist, userId, 1, "novideo")
     ELSE /\ ent' = [ent EXCEPT ![Manual] = NewEntry(Head(videos))]
          /\ pc' = [pc EXCEPT ![Manual] = "fetch"]
          /\ hist' = Commanded(Taken(hist, Manual), userId, 1, "started")
  /\ UNCHANGED app
  /\ UNCHANGED <<chatIds, active, hub, store, phase, kind, todo, status,
                 markAge, fanAge, delivery, probe>>

\* getVideoMetadata and shouldNotifyForVideo; when both pass the
\* notification is built and sendLivestreamNotification is called
Fetch(p, rs, d) ==
  /\ Alive
  /\ p \in active
  /\ pc[p] = "fetch"
  /\ LET meta == GetVideoMetadata(ent[p].vid, rs, d)
         e == [ent[p] EXCEPT !.fetches = @ + 1]
         x == ent[p].vid
         h == Requested(hist, p, MakeRequestWithRetry(rs).requests)
     IN IF ~meta.found
        THEN /\ ent' = [ent EXCEPT ![p] = Finished(e, "nometa")]
             /\ pc' = [pc EXCEPT ![p] = AfterEntry(p)]
             /\ fanAge' = fanAge
             /\ hist' = Logged(h, p, Finished(e, "nometa"))
        ELSE IF ~ShouldNotifyForVideo(meta)
        THEN /\ ent' = [ent EXCEPT ![p] = Finished(e, "notag")]
             /\ pc' = [pc EXCEPT ![p] = AfterEntry(p)]
             /\ fanAge' = fanAge
             /\ hist' = Skipped(Logged(h, p, Finished(e, "notag")), x)
        ELSE /\ ent' = [ent EXCEPT ![p] =
                  [e EXCEPT !.fanned = TRUE, !.near = FannedOutLately(x)]]
             /\ pc' = [pc EXCEPT ![p] = "send"]
             /\ fanAge' = [fanAge EXCEPT ![x] = 0]
             /\ hist' = h
  /\ UNCHANGED app
  /\ UNCHANGED <<chatIds, active, hub, store, phase, kind, todo, status,
                 markAge, delivery, probe>>

\* variant: the item is marked only when some destination got the message
AfterFanOut_OnlyOnSuccess(p, results) ==
  IF \A i \in 1..Len(results) : ~results[i].success
  THEN AfterEntry(p) ELSE "mark"

\* after the results are logged the controller goes on to markAsNotified,
\* whatever the results are
AfterFanOut(p, results) == "mark"

\* sendLivestreamNotification runs to its end and returns the results
Send(p, outs) ==
  /\ Alive
  /\ p \in active
  /\ pc[p] = "send"
  /\ LET full == SendLivestreamNotification(chatIds, outs)
     IN ent' = [ent EXCEPT ![p] =
                  [@ EXCEPT !.results =
                              [i \in 1..Len(full) |-> AsResult(full[i])],
                            !.allFailed =
                              \A i \in 1..Len(full) : ~full[i].success]]
  /\ pc' = [pc EXCEPT ![p] =
              AfterFanOut(p, SendLivestreamNotification(chatIds, outs))]
  /\ UNCHANGED hist
  /\ UNCHANGED app
  /\ UNCHANGED <<chatIds, active, hub, store, phase, kind, todo, status,
                 markAge, fanAge, delivery, probe>>

\* await deduplicationService.markAsNotified(videoId)
Mark(p, reachable) ==
  /\ Alive
  /\ p \in active
  /\ pc[p] = "mark"
  /\ store' = MarkAsNotified(store, ent[p].vid, reachable)
  /\ markAge' = IF reachable THEN [markAge EXCEPT ![ent[p].vid] = 0]
                ELSE markAge
  /\ LET e == Finished([ent[p] EXCEPT !.marks = 1, !.markOk = reachable],
                       "sent")
     IN /\ ent' = [ent EXCEPT ![p] = e]
        /\ hist' = IF reachable THEN Marked(Logged(hist, p, e), e.vid)
                   ELSE Logged(hist, p, e)
  /\ pc' = [pc EXCEPT ![p] = AfterEntry(p)]
  /\ UNCHANGED app
  /\ UNCHANGED <<chatIds, active, hub, phase, kind, todo, status,
                 fanAge, delivery, probe>>

\* variant: an exception of one entry is not caught and ends the request
AfterThrow_Propagates(p) == IF p = Manual THEN "idle" ELSE "done"

\* the catch block of processFeedEntry / sendManualNotification logs the
\* error and returns: the handler goes on as after any other return
AfterThrow(p) == AfterEntry(p)

\* a statement inside the try block of processFeedEntry or
\* sendManualNotification throws: at the entry's first statement, or
\* between two of its awaited calls (the calls themselves catch their
\* errors); the last awaited call is markAsNotified, so a throw comes
\* before it
Throw(p) ==
  /\ Alive
  /\ p \in active
  /\ \/ InFlight(p)
     \/ p \in Webhooks /\ pc[p] = "loop" /\ todo[p] /= <<>>
  /\ LET e == IF InFlight(p) THEN Finished(ent[p], "threw")
              ELSE [NewEntry(Head(todo[p])) EXCEPT !.outcome = "threw"]
     IN /\ ent' = [ent EXCEPT ![p] = e]
        /\ hist' = Logged(IF InFlight(p) THEN hist ELSE Taken(hist, p), p, e)
  /\ todo' = IF InFlight(p) THEN todo ELSE [todo EXCEPT ![p] = Tail(todo[p])]
  /\ pc' = [pc EXCEPT ![p] = AfterThrow(p)]
  /\ status' = IF AfterThrow(p) = "done" THEN [status EXCEPT ![p] = 500]
               ELSE status
  /\ UNCHANGED app
  /\ UNCHANGED <<chatIds, active, hub, store, phase, kind, markAge, fanAge,
                 delivery, probe>>

\* time passes.  The clock is observed at instants that lie alternately
\* TTL_SECONDS - 1 and 1 second apart, so that every 24 h boundary is seen
\* from both sides.
TickStep(ph) == IF ph = 0 THEN TTL_SECONDS - 1 ELSE 1

Tick ==
  /\ phase' = 1 - phase
  /\ store' = Expire(store, TickStep(phase))
  /\ markAge' = [i \in Ids |-> Older(markAge[i], TickStep(phase))]
  /\ fanAge' = [i \in Ids |-> Older(fanAge[i], TickStep(phase))]
  /\ UNCHANGED hist
  /\ UNCHANGED app
  /\ UNCHANGED <<chatIds, active, hub, pc, kind, todo, ent, status, delivery, probe>>

\* sendLivestreamNotification one sendMessage call at a time: the call
\* succeeds or throws, and the loops go on to the next call or return
SendAttempt(p, ok) ==
  /\ Alive
  /\ p \in active
  /\ pc[p] = "send"
  /\ LET d == IF delivery = NoDelivery THEN FanOutStart ELSE delivery
         nxt == AfterAttempt(d.dest, d.attempt, ok)
         calls == Append(d.calls, [dest |-> d.dest, attempt |-> d.attempt,
                                   ok |-> ok])
         results == IF nxt.dest > d.dest
                    THEN Append(d.results, [chatId |-> chatIds[d.dest],
                                            success |-> ok])
                    ELSE d.results
     IN IF nxt.dest > Len(chatIds)
        THEN /\ delivery' = NoDelivery
             /\ ent' = [ent EXCEPT ![p] =
                          [@ EXCEPT !.results = results,
                                    !.allFailed =
                                      \A i \in 1..Len(results) :
                                         ~results[i].success]]
             /\ pc' = [pc EXCEPT ![p] = AfterFanOut(p, results)]
        ELSE /\ delivery' = [dest |-> nxt.dest, attempt |-> nxt.attempt,
                             calls |-> calls, results |-> results]
             /\ UNCHANGED <<ent, pc>>
  /\ UNCHANGED hist
  /\ UNCHANGED app
  /\ UNCHANGED <<chatIds, active, hub, store, phase, kind, todo, status,
                 markAge, fanAge, probe>>

\* start(): the awaited subscribeToWebSub has returned, or thrown into the
\* catch block of start()
Subscribe(answer) ==
  /\ app.stage = "subscribe"
  /\ LET r == SubscribeToWebSub(answer)
         a == [app EXCEPT !.subscription = answer, !.requests = @ + r.requests]
     IN app' = IF r.threw THEN Shutdown([a EXCEPT !.cause = "startup"], TRUE)
               ELSE [a EXCEPT !.stage = "bot"]
  /\ UNCHANGED <<chatIds, active, hub, store, phase, pc, kind, todo, ent,
                 status, markAge, fanAge, delivery, probe, hist>>

\* start(): startBot has returned or thrown; then serve() returns or
\* throws, this.server is set and setupGracefulShutdown registers the
\* handlers; a throw goes to the catch block, which calls shutdown()
StartBot(botOk, serveOk) ==
  /\ app.stage = "bot"
  /\ app' = IF botOk /\ serveOk
            THEN [app EXCEPT !.stage = "running", !.server = TRUE,
                             !.handlers = TRUE, !.bot = TRUE]
            ELSE Shutdown([app EXCEPT !.cause = "startup", !.bot = TRUE], TRUE)
  /\ UNCHANGED <<chatIds, active, hub, store, phase, pc, kind, todo, ent,
                 status, markAge, fanAge, delivery, probe, hist>>

\* a signal arrives, or an exception or rejection nobody caught: the
\* handler registered by setupGracefulShutdown runs, or, when none is
\* registered yet, the runtime ends the process
Signal(event, stopOk) ==
  /\ app.stage \in {"subscribe", "bot", "running", "closing"}
  /\ app' = IF ~app.handlers
            THEN Exited([app EXCEPT !.cause = event], DefaultExit(event))
            ELSE IF AlreadyShuttingDown(app.isShuttingDown)
            THEN [app EXCEPT !.ignored = TRUE]
            ELSE Shutdown([app EXCEPT !.isShuttingDown = TRUE,
                                      !.cause = event], stopOk)
  /\ UNCHANGED <<chatIds, active, hub, store, phase, pc, kind, todo, ent,
                 status, markAge, fanAge, delivery, probe, hist>>

\* shutdown(): redis.quit() has resolved or rejected; the finally block
\* exits
Close(quitOk) ==
  /\ app.stage = "closing"
  /\ app' = Exited([app EXCEPT !.redis = IF quitOk THEN "closed" ELSE @],
                   ExitCode(app.isShuttingDown))
  /\ UNCHANGED <<chatIds, active, hub, store, phase, pc, kind, todo, ent,
                 status, markAge, fanAge, delivery, probe, hist>>

\* the config module is imported: loadConfig returns or throws
Load ==
  /\ probe.op = "loadConfig"
  /\ probe' = [op |-> "loaded", env |-> probe.env, res |-> LoadConfig(probe.env)]
  /\ UNCHANGED <<chatIds, active, hub, store, phase, pc, kind, todo, ent,
                 status, markAge, fanAge, delivery, app, hist>>

\* a message is rendered, and its links are read back
Format ==
  /\ probe.op = "formatNotificationMessage"
  /\ LET text == FormatNotificationMessage(probe.title, <<"D">>,
                                           probe.platforms)
     IN probe' = [op |-> "formatted", title |-> probe.title,
                  platforms |-> probe.platforms, text |-> text,
                  links |-> ParseLinks(text, 1)]
  /\ UNCHANGED <<chatIds, active, hub, store, phase, pc, kind, todo, ent,
                 status, markAge, fanAge, delivery, app, hist>>

\* sendLivestreamNotification called on its own, every sendMessage outcome
\* drawn freely
Deliver(outs) ==
  /\ active = {}
  /\ delivery = NoDelivery
  /\ delivery' = [chats |-> chatIds, outs |-> outs,
                  results |-> SendLivestreamNotification(chatIds, outs)]
  /\ UNCHANGED hist
  /\ UNCHANGED app
  /\ UNCHANGED <<chatIds, active, hub, store, phase, pc, kind, todo, ent,
                 status, markAge, fanAge, probe>>

\* a verification GET is answered
Verify ==
  /\ probe.op = "GET"
  /\ probe' = [op |-> "verify", mode |-> probe.mode, topic |-> probe.topic,
                challenge |-> probe.challenge,
                res |-> HandleSubscriptionVerification(
                          probe.mode, probe.topic, probe.challenge)]
  /\ UNCHANGED hist
  /\ UNCHANGED app
  /\ UNCHANGED <<chatIds, active, hub, store, phase, pc, kind, todo, ent,
                 status, markAge, fanAge, delivery>>

\* getVideoMetadata called on its own against any three API answers
FetchRun ==
  /\ probe.op = "getVideoMetadata"
  /\ probe' = [op |-> "fetch", rs |-> probe.rs, d |-> probe.d,
                run |-> MakeRequestWithRetry(probe.rs),
                meta |-> GetVideoMetadata("a", probe.rs, probe.d)]
  /\ UNCHANGED hist
  /\ UNCHANGED app
  /\ UNCHANGED <<chatIds, active, hub, store, phase, pc, kind, todo, ent,
                 status, markAge, fanAge, delivery>>

\* containsLiveTag called on its own
Match ==
  /\ probe.op = "containsLiveTag"
  /\ probe' = [op |-> "match", d |-> probe.d, res |-> ContainsLiveTag(probe.d)]
  /\ UNCHANGED hist
  /\ UNCHANGED app
  /\ UNCHANGED <<chatIds, active, hub, store, phase, pc, kind, todo, ent,
                 status, markAge, fanAge, delivery>>

Next ==
  \/ \E p \in Webhooks, b \in Bodies, signature \in SignaturesSent(hist) :
        ReceivePost(p, b, signature)
  \/ \E p \in Webhooks : Respond(p)
  \/ \E p \in Webhooks, reachable \in BOOLEAN : ProcessFeedEntry(p, reachable)
  \/ \E p \in Procs, rs \in FetchScenarios, d \in Descriptions : Fetch(p, rs, d)
  \/ \E p \in Procs, outs \in [1..Len(chatIds) -> SendScenarios] :
        Send(p, outs)
  \/ \E p \in Procs, reachable \in BOOLEAN : Mark(p, reachable)
  \/ Tick

NextOrder ==
  \/ \E p \in Webhooks, b \in Bodies, signature \in SignaturesSent(hist) :
        ReceivePost(p, b, signature)
  \/ \E p \in Webhooks : Respond(p)
  \/ \E p \in Webhooks, reachable \in BOOLEAN : ProcessFeedEntry(p, reachable)
  \/ \E p \in Procs, rs \in FetchScenarios, d \in Descriptions : Fetch(p, rs, d)
  \/ \E p \in Procs, ok \in BOOLEAN : SendAttempt(p, ok)
  \/ \E p \in Procs, reachable \in BOOLEAN : Mark(p, reachable)
  \/ Tick

NextManual ==
  \/ Next
  \/ \E userId \in {0, 7}, videos \in {<<>>} \cup {<<i>> : i \in IdsIn(hub)} :
        Notify(userId, videos)

NextNotify ==
  \/ \E userId \in {0, 7}, videos \in {<<>>} \cup {<<i>> : i \in IdsIn(hub)} :
        Notify(userId, videos)
  \/ \E rs \in FetchScenarios, d \in Descriptions : Fetch(Manual, rs, d)
  \/ \E outs \in [1..Len(chatIds) -> SendScenarios] : Send(Manual, outs)
  \/ \E reachable \in BOOLEAN : Mark(Manual, reachable)
  \/ Tick

NextApp ==
  \/ \E answer \in HubAnswers : Subscribe(answer)
  \/ \E botOk, serveOk \in BOOLEAN : StartBot(botOk, serveOk)
  \/ \E event \in Signals \cup Faults, stopOk \in BOOLEAN :
        Signal(event, stopOk)
  \/ \E quitOk \in BOOLEAN : Close(quitOk)
  \/ Next

NextConfig == Load

NextFormat == Format

NextFaulty ==
  \/ NextManual
  \/ \E p \in Procs : Throw(p)

NextSend ==
  \E outs \in [1..Len(chatIds) -> AttemptOutcomes] : Deliver(outs)

NextUnits == Verify \/ FetchRun \/ Match

Spec == Init /\ [][Next]_vars

SpecUnits == InitUnits /\ [][NextUnits]_vars

SpecPayload == InitPayload /\ [][Next]_vars

SpecOrder == InitOrder /\ [][NextOrder]_vars

SpecSigned == InitSigned /\ [][Next]_vars

\* the awaited call handler p is waiting for returns or fails
Step(p) ==
  \/ Respond(p)
  \/ \E reachable \in BOOLEAN : ProcessFeedEntry(p, reachable)
  \/ \E rs \in FetchScenarios, d \in Descriptions : Fetch(p, rs, d)
  \/ \E ok \in BOOLEAN : SendAttempt(p, ok)
  \/ \E reachable \in BOOLEAN : Mark(p, reachable)

\* every awaited call comes back, so a handler that can take a step takes it
SpecLive ==
  InitLive /\ [][NextOrder]_vars /\ \A p \in Webhooks : WF_vars(Step(p))

SpecNotify == InitNotify /\ [][NextNotify]_vars

SpecApp == InitApp /\ [][NextApp]_vars

SpecConfig == InitConfig /\ [][NextConfig]_vars

SpecFormat == InitFormat /\ [][NextFormat]_vars

SpecFaulty == InitFaulty /\ [][NextFaulty]_vars

SpecManual == InitManual /\ [][NextManual]_vars

SpecSend == InitSend /\ [][NextSend]_vars

----------------------------------------------------------------------------
(* Properties                                                              *)

\* C1 (as stated): for a given item identifier no fan-out is initiated less
\* than 24 hours after an earlier fan-out for the same identifier.
C1_OneFanOutPerWindow == \A p \in Procs : ~ent[p].near

\* C1 (amended): a fan-out is initiated less than 24 hours after an earlier
\* fan-out for the same identifier only if it is a manual trigger, or its
\* request's existence query failed, or no successful mark of the
\* identifier was in force when its existence check ran.
C1_SecondFanOutOnlyWhenUngated ==
  \A p \in Procs :
    ent[p].near => (p = Manual \/ ent[p].chkErr \/ ~ent[p].chkLive)

C1_Witness ==
  \E p \in Webhooks : ent[p].near /\ ent[p].chkErr /\ ent[p].chkLive

\* C2 (as stated): a webhook entry for an identifier that was fanned out
\* and marked, checked before the key expires, short-circuits at the
\* suppressor check: no metadata fetch, no fan-out, no suppressor write.
C2_ReplayShortCircuits ==
  \A p \in Webhooks :
    ent[p].chkLive =>
      /\ ent[p].outcome = "dup" /\ ~InFlight(p)
      /\ ent[p].fetches = 0 /\ ~ent[p].fanned /\ ent[p].marks = 0

\* C2 (amended): the same, provided the existence query of the replayed
\* entry reaches the store.
C2_ReplayShortCircuitsWhenQueried ==
  \A p \in Webhooks :
    (ent[p].chkLive /\ ~ent[p].chkErr) =>
      /\ ent[p].outcome = "dup" /\ ~InFlight(p)
      /\ ent[p].fetches = 0 /\ ~ent[p].fanned /\ ent[p].marks = 0

C2_Witness ==
  \E p \in Webhooks :
    /\ ent[p].outcome = "dup" /\ ent[p].chkLive /\ ent[p].queries = 1
    /\ pc[p] = "done" /\ status[p] = 200

\* C3: once the fan-out for an entry has returned and processFeedEntry is
\* over, markAsNotified has been called for the entry, whatever the
\* per-destination results were.
C3_MarkAfterFanOut ==
  \A p \in Procs : (ent[p].fanned /\ ~InFlight(p)) => ent[p].marks = 1

C3_Witness ==
  \E p \in Webhooks :
    /\ ent[p].fanned /\ ent[p].allFailed /\ ent[p].marks = 1
    /\ pc[p] = "loop"

\* C4: the fan-out returns one result per configured destination, in the
\* configured order, result i carrying destination i's identifier; result
\* i is a success exactly when one of destination i's own attempts
\* succeeded, and every destination is attempted.
C4_OneResultPerDestination ==
  delivery /= NoDelivery =>
    /\ Len(delivery.results) = Len(delivery.chats)
    /\ \A i \in 1..Len(delivery.chats) :
         /\ delivery.results[i].chatId = delivery.chats[i]
         /\ delivery.results[i].success
              = (\E k \in 1..3 : delivery.outs[i][k])
         /\ delivery.results[i].attempts >= 1

C4_Witness ==
  /\ Len(delivery.results) = 3
  /\ delivery.results[1].success
  /\ ~delivery.results[2].success
  /\ delivery.results[3].success

\* C5: each destination gets at least 1 and at most 3 attempts; after
\* failed attempt n < 3 the wait is n * 2000 ms; the outcome is a failure
\* exactly when all 3 attempts failed, and then the waits were 2000 ms and
\* 4000 ms and none after the last attempt.
C5_RetryWithLinearBackoff ==
  \A i \in 1..Len(delivery.results) :
    LET r == delivery.results[i]
        failedAll == \A k \in 1..3 : ~delivery.outs[i][k]
    IN /\ r.attempts \in 1..3
       /\ Len(r.delays) = r.attempts - 1
       /\ \A n \in 1..Len(r.delays) : r.delays[n] = n * 2000
       /\ r.success = ~failedAll
       /\ r.success => delivery.outs[i][r.attempts]
       /\ failedAll => r.delays = <<2000, 4000>>

C5_Witness ==
  \E i \in 1..Len(delivery.results) :
    /\ ~delivery.results[i].success
    /\ delivery.results[i].attempts = 3
    /\ delivery.results[i].delays = <<2000, 4000>>

\* C6: when the existence query fails, hasBeenNotified answers false and
\* the controller goes on to the metadata fetch for the entry.
C6_FailOpen ==
  \A p \in Webhooks :
    ent[p].chkErr =>
      /\ ~ent[p].already /\ ent[p].outcome /= "dup"
      /\ (pc[p] = "fetch" \/ ent[p].fetches = 1)

C6_Witness ==
  \E p \in Webhooks :
    /\ ent[p].chkErr /\ ent[p].chkLive
    /\ ent[p].fetches = 1 /\ pc[p] = "send"

\* C7: a mark whose write fails leaves the store as it was and returns to
\* the entry loop without an error, and the request is still answered 200.
C7_MarkFailureStep ==
  \A p \in Webhooks :
    (pc[p] = "mark" /\ pc'[p] /= "mark" /\ ~ent'[p].markOk) =>
      /\ store' = store
      /\ pc'[p] = "loop"
      /\ status'[p] = status[p]

C7_FailedMarkSwallowed ==
  /\ [][C7_MarkFailureStep]_vars
  /\ [](\A p \in Webhooks :
          (pc[p] = "done" /\ ent[p].marks = 1 /\ ~ent[p].markOk)
             => status[p] = 200)

\* ... and a later webhook for the same identifier initiates fan-out again
C7_Witness ==
  \E p \in Webhooks :
    /\ pc[p] = "send" /\ ent[p].near /\ ~ent[p].chkErr
    /\ markAge[ent[p].vid] = -1 /\ store[ent[p].vid] = 0

\* C8 (as stated): an existence query answers true exactly when a
\* successful mark of the identifier is less than 86400 s old.
C8_ExistsUntilExpiry ==
  \A p \in Webhooks :
    (ent[p].queries = 1 /\ (InFlight(p) \/ ent[p].outcome = "dup")) =>
      (ent[p].already <=> ent[p].chkLive)

\* C8 (amended): an existence query that reaches the store answers true
\* exactly when the latest successful mark of the identifier is less than
\* 86400 s old.
C8_ExistsUntilExpiryWhenQueried ==
  \A p \in Webhooks :
    (ent[p].queries = 1 /\ (InFlight(p) \/ ent[p].outcome = "dup")
       /\ ~ent[p].chkErr) =>
      (ent[p].already <=> ent[p].chkLive)

C8_Witness ==
  \E p \in Webhooks :
    /\ ent[p].already /\ ent[p].outcome = "dup"
    /\ markAge[ent[p].vid] = 86400 - 1

\* C9: a POST whose body parses to a feed with at least one entry is
\* answered 200, whatever happened to its entries.
C9_ValidPostGets200 ==
  \A p \in Webhooks :
    kind[p] = "feed" =>
      /\ status[p] \in {0, 200}
      /\ pc[p] = "done" => status[p] = 200

C9_Witness ==
  \E p \in Webhooks :
    /\ kind[p] = "feed" /\ pc[p] = "done" /\ status[p] = 200
    /\ ent[p].outcome = "sent" /\ ent[p].allFailed /\ ~ent[p].markOk

\* C10: a POST whose body is not XML, or has no feed, or a feed without
\* entry, is answered 400 and causes no existence query, no metadata
\* fetch, no fan-out and no mark.
C10_InvalidPostGets400 ==
  \A p \in Webhooks :
    kind[p] \in {"garbage", "other", "bare"} =>
      /\ pc[p] = "done" /\ status[p] = 400
      /\ ent[p] = NewEntry(NoId)

C10_Witness ==
  \E p \in Webhooks :
    /\ kind[p] = "bare" /\ pc[p] = "done" /\ status[p] = 400
    /\ \E i \in Ids : store[i] > 0

\* C11: the verification GET is answered 200 with the challenge as body
\* exactly when hub.mode is 'subscribe' and hub.topic is the expected topic
\* URL, and 400 otherwise; the store, the handlers and the fan-out are left
\* as they were.
C11_VerificationAnswer ==
  probe.op = "verify" =>
    /\ (probe.mode = "subscribe" /\ probe.topic = TOPIC_URL)
         => /\ probe.res.status = 200
            /\ probe.res.body =
                 (IF probe.challenge = NoParam THEN "" ELSE probe.challenge)
    /\ ~(probe.mode = "subscribe" /\ probe.topic = TOPIC_URL)
         => probe.res.status = 400
    /\ store = [i \in Ids |-> 0]
    /\ \A p \in Procs : pc[p] = "idle" /\ ent[p] = NewEntry(NoId)
    /\ delivery = NoDelivery

C11_Witness ==
  /\ probe.op = "verify"
  /\ probe.mode = "subscribe" /\ probe.topic = TOPIC_URL
  /\ probe.challenge = "xyz123"
  /\ probe.res = [status |-> 200, body |-> "xyz123"]

\* a request that did not get a 2xx answer
FailedRequest(resp) == resp.kind \in {"error", "429"}

\* C12: a metadata fetch whose first k requests fail (k < 3) and whose
\* next request succeeds returns that request's metadata after exactly
\* k + 1 requests and exactly k backoff delays.
C12_RetryThenSuccess ==
  probe.op = "fetch" =>
    \A k \in 0..2 :
      ( /\ \A j \in 1..k : FailedRequest(probe.rs[j])
        /\ probe.rs[k + 1].kind = "ok" )
      => /\ ~probe.run.threw
         /\ probe.run.requests = k + 1
         /\ probe.run.resp = probe.rs[k + 1]
         /\ Len(probe.run.delays) = k
         /\ probe.meta.found
         /\ probe.meta.id = "a" /\ probe.meta.description = probe.d

C12_Witness ==
  /\ probe.op = "fetch"
  /\ FailedRequest(probe.rs[1]) /\ FailedRequest(probe.rs[2])
  /\ probe.rs[3].kind = "ok"
  /\ probe.meta.found
  /\ probe.run.requests = 3 /\ Len(probe.run.delays) = 2

\* C13: the delay after failed attempt n is s * 1000 ms on a 429 answer
\* with a retry-after header of s seconds, the default base delay of
\* 1000 ms on a 429 answer without the header, and n * 1000 ms on any
\* other failure.
C13_DelayRule ==
  probe.op = "fetch" =>
    \A n \in 1..Len(probe.run.delays) :
      probe.run.delays[n] =
        IF probe.rs[n].kind = "429"
        THEN IF probe.rs[n].retryAfter = {} THEN 1000
             ELSE 1000 * (CHOOSE sec \in probe.rs[n].retryAfter : TRUE)
        ELSE n * 1000

\* C14: an entry whose metadata fetch returned nothing is skipped: the
\* fetcher was called exactly once for it, no fan-out was initiated, the
\* item was not marked, and the request goes on without an error.
C14_SkipOnNoMetadata ==
  \A p \in Webhooks :
    ent[p].outcome = "nometa" =>
      /\ ent[p].fetches = 1
      /\ ~ent[p].fanned /\ ent[p].marks = 0
      /\ pc[p] \in {"loop", "done"}
      /\ status[p] \in {0, 200}

C14_Witness ==
  \E p \in Webhooks :
    /\ ent[p].outcome = "nometa" /\ ent[p].fetches = 1
    /\ pc[p] = "done" /\ status[p] = 200
    /\ store[ent[p].vid] = 0 /\ fanAge[ent[p].vid] = -1

\* the marker token, in any letter case, stands at position k of d
TokenAt(d, k) ==
  /\ k + 4 <= Len(d)
  /\ d[k] = "#"
  /\ d[k + 1] \in {"l", "L"} /\ d[k + 2] \in {"i", "I"}
  /\ d[k + 3] \in {"v", "V"} /\ d[k + 4] \in {"e", "E"}

\* a letter, digit or underscore stands directly before / after the token
GluedBefore(d, k) == k > 1 /\ IsWordChar(d[k - 1])
GluedAfter(d, k) == k + 5 <= Len(d) /\ IsWordChar(d[k + 5])

\* C15: a description that contains the token as a separate word, in any
\* letter case, makes containsLiveTag return true.
C15_SeparateWordMatches ==
  probe.op = "match" =>
    ( (\E k \in 1..Len(probe.d) :
          TokenAt(probe.d, k) /\ ~GluedBefore(probe.d, k)
                              /\ ~GluedAfter(probe.d, k))
      => probe.res )

C15_Witness ==
  /\ probe.op = "match" /\ probe.res
  /\ probe.d = <<" ", "#", "L", "i", "V", "E", "!">>

\* C16 (as stated): a description in which the token occurs only with a
\* word character directly before or after it, or not at all, makes
\* containsLiveTag return false.
C16_PartOfLongerWordRejected ==
  probe.op = "match" =>
    ( (\A k \in 1..Len(probe.d) :
          TokenAt(probe.d, k) =>
            (GluedBefore(probe.d, k) \/ GluedAfter(probe.d, k)))
      => ~probe.res )

\* C16 (amended): a description in which every occurrence of the token is
\* directly followed by a word character, or which has no occurrence,
\* makes containsLiveTag return false; what stands before the token does
\* not count.
C16_WordContinuedRejected ==
  probe.op = "match" =>
    ( (\A k \in 1..Len(probe.d) :
          TokenAt(probe.d, k) => GluedAfter(probe.d, k))
      => ~probe.res )

C16_Witness ==
  /\ probe.op = "match" /\ ~probe.res
  /\ probe.d = <<" ", "#", "l", "i", "v", "e", "x">>

\* C17: an entry whose description lacks the tag is skipped after one
\* fetch, with no fan-out and no mark, and the request goes on; an id
\* skipped this way and not marked since has no key in the store but one
\* left by an earlier successful mark, so it is still eligible.
C17_SkipOnMissingTag ==
  /\ \A p \in Webhooks :
        ent[p].outcome = "notag" =>
          /\ ent[p].fetches = 1
          /\ ~ent[p].fanned /\ ent[p].marks = 0
          /\ pc[p] \in {"loop", "done"}
  /\ hist.on =>
        \A x \in hist.skipped : store[x] > 0 => MarkInForce(x)

\* ... and a later webhook for the id, its description now carrying the
\* tag, initiates fan-out
C17_Witness ==
  /\ hist.on
  /\ \E p \in Webhooks :
        /\ pc[p] = "send" /\ ent[p].fanned /\ ~ent[p].chkErr
        /\ ent[p].vid \in hist.skipped
        /\ hist.log[p] = <<>>
        /\ markAge[ent[p].vid] = -1

\* C18: an entry without an item identifier is skipped with no existence
\* query, no fetch, no fan-out and no mark; every entry of the payload is
\* processed all the same and the request is answered 200.
C18_SkipEntryWithoutId ==
  \A p \in Webhooks :
    /\ ent[p].outcome = "noid" =>
          /\ ent[p].queries = 0 /\ ent[p].fetches = 0
          /\ ~ent[p].fanned /\ ent[p].marks = 0
          /\ pc[p] \in {"loop", "done"}
    /\ (hist.on /\ pc[p] = "done" /\ kind[p] = "feed") =>
          /\ status[p] = 200
          /\ Len(hist.log[p]) = Len(hist.payload[p])
          /\ \A i \in 1..Len(hist.log[p]) :
                /\ hist.log[p][i].vid = hist.payload[p][i]
                /\ (hist.log[p][i].outcome = "noid")
                     = (hist.payload[p][i] = NoId)

C18_Witness ==
  /\ hist.on
  /\ \E p \in Webhooks :
        /\ pc[p] = "done" /\ status[p] = 200
        /\ hist.payload[p] = <<NoId, "a">>
        /\ hist.log[p][1].outcome = "noid"
        /\ hist.log[p][2].outcome = "sent"

\* the entries of p's payload, finished or in flight, that ran the
\* pipeline (metadata fetch, and fan-out when it got that far) for id x
RunsFor(p, x) ==
  Cardinality({i \in 1..Len(hist.log[p]) :
                 hist.log[p][i].vid = x /\ hist.log[p][i].fetches > 0})
  + (IF InFlight(p) /\ ent[p].vid = x THEN 1 ELSE 0)

\* no entry ran the pipeline more than once
OneRunPerEntry(p) ==
  /\ ent[p].fetches <= 1
  /\ \A i \in 1..Len(hist.log[p]) : hist.log[p][i].fetches <= 1
  /\ Len(hist.log[p]) + (IF InFlight(p) THEN 1 ELSE 0)
       <= Len(hist.payload[p])

\* C19 (as stated): for a payload of N entries the pipeline runs at most N
\* times, and at most once for each distinct id of the payload.
C19_OncePerIdInPayload ==
  hist.on =>
    \A p \in Webhooks :
      /\ OneRunPerEntry(p)
      /\ \A x \in Ids : RunsFor(p, x) <= 1

\* C19 (amended): for a payload of N entries the pipeline runs at most N
\* times, and it runs again for an id that an earlier entry of the payload
\* ran it for only if, at the later entry's existence check, the query
\* failed or no successful mark of the id was in force.
C19_RerunOnlyWhenUnmarked ==
  hist.on =>
    \A p \in Webhooks :
      /\ OneRunPerEntry(p)
      /\ (InFlight(p) /\ RunsFor(p, ent[p].vid) > 1)
            => (ent[p].chkErr \/ ~ent[p].chkLive)

C19_Witness ==
  /\ hist.on
  /\ \E p \in Webhooks :
        /\ pc[p] = "send" /\ RunsFor(p, ent[p].vid) = 2
        /\ ~ent[p].chkErr /\ ~ent[p].chkLive
        /\ hist.log[p][1].outcome = "sent"

\* C20: the existence check reserves nothing: the store holds a key for
\* an id only by a successful mark less than 24 h old, made after a
\* fan-out.  So two webhook requests for the same unmarked id that both
\* reached the store and are both past the check saw no key, and both
\* have initiated fan-out.
C20_CheckReservesNothing ==
  /\ \A x \in Ids : store[x] > 0 => (MarkInForce(x) /\ fanAge[x] >= 0)
  /\ \A p, q \in Webhooks :
        ( /\ p /= q /\ ent[p].vid = ent[q].vid
          /\ pc[p] \in {"send", "mark"} /\ pc[q] \in {"send", "mark"}
          /\ ~ent[p].chkErr /\ ~ent[q].chkErr
          /\ markAge[ent[p].vid] = -1 )
        => /\ ~ent[p].already /\ ~ent[q].already
           /\ ent[p].fanned /\ ent[q].fanned
           /\ store[ent[p].vid] = 0

\* ... the second less than 24 hours after the first
C20_Witness ==
  /\ pc["w1"] = "send" /\ pc["w2"] = "send"
  /\ ent["w1"].vid = ent["w2"].vid
  /\ ent["w1"].queries = 1 /\ ent["w2"].queries = 1
  /\ ~ent["w1"].chkErr /\ ~ent["w2"].chkErr
  /\ ~ent["w1"].already /\ ~ent["w2"].already
  /\ ent["w1"].fanned /\ ent["w2"].fanned /\ ent["w2"].near
  /\ markAge[ent["w1"].vid] = -1


\* the sendMessage calls made before the k-th call of the fan-out under way
\* went to the destinations before its own, each of them up to a success or
\* a failed last attempt, and then to its own destination, all failed
CallsInOrder(calls) ==
  \A k \in 1..Len(calls) :
    /\ calls[k].attempt \in 1..TG_MAX_RETRIES
    /\ IF calls[k].attempt > 1
       THEN /\ k > 1
            /\ calls[k-1].dest = calls[k].dest
            /\ calls[k-1].attempt = calls[k].attempt - 1
            /\ ~calls[k-1].ok
       ELSE IF k = 1 THEN calls[k].dest = 1
       ELSE /\ calls[k-1].dest = calls[k].dest - 1
            /\ calls[k-1].ok \/ calls[k-1].attempt = TG_MAX_RETRIES

\* C21: within one webhook request the entries are processed one after
\* another in payload order: the entries returned from are the first
\* entries of the payload, the entry in flight is the next one, the rest
\* are still to come, and an entry that got as far as the fan-out was left
\* only through its mark.  Within one fan-out the sendMessage calls go to
\* the destinations in order, and a call to destination j+1 is made only
\* after a call to j succeeded or the third call to j failed.
C21_StrictlySequential ==
  hist.on =>
    \A p \in Webhooks :
      LET log == hist.log[p]
          payload == hist.payload[p]
          fl == IF InFlight(p) THEN 1 ELSE 0
      IN /\ Len(log) + fl + Len(todo[p]) = Len(payload)
         /\ \A i \in 1..Len(log) :
               /\ log[i].vid = payload[i]
               /\ log[i].fanned => log[i].outcome = "sent"
         /\ InFlight(p) => ent[p].vid = payload[Len(log) + 1]
         /\ \A i \in 1..Len(todo[p]) : todo[p][i] = payload[Len(log) + fl + i]
         /\ delivery /= NoDelivery =>
               /\ pc[p] = "send" \/ p \notin active
               /\ CallsInOrder(delivery.calls)
               /\ Len(delivery.results) = delivery.dest - 1

\* the second entry's fan-out is at its second destination after the
\* first destination failed three times, the first entry being marked
C21_Witness ==
  /\ hist.on
  /\ delivery /= NoDelivery
  /\ Len(hist.log["w1"]) = 1 /\ hist.log["w1"][1].outcome = "sent"
  /\ pc["w1"] = "send"
  /\ Len(delivery.calls) = 4
  /\ delivery.calls[3].dest = 1 /\ ~delivery.calls[3].ok
  /\ delivery.calls[4].dest = 2 /\ delivery.dest = 2

C23_ManualRunsUngated ==
  /\ [](hist.on =>
         LET e == ent[Manual]
         IN /\ e.queries = 0 /\ ~e.already
            /\ pc[Manual] = "fetch" => (e.fetches = 0 /\ ~e.fanned)
            /\ pc[Manual] \in {"send", "mark"}
                  => (e.fetches = 1 /\ e.fanned /\ e.marks = 0)
            /\ pc[Manual] = "mark" => Len(e.results) = Len(chatIds)
            /\ (pc[Manual] = "idle" /\ e.vid /= NoId)
                  => \/ /\ e.outcome \in {"nometa", "notag"}
                        /\ e.fetches = 1 /\ ~e.fanned /\ e.marks = 0
                        /\ e.results = <<>>
                     \/ /\ e.outcome = "sent"
                        /\ e.fetches = 1 /\ e.fanned /\ e.marks = 1)
  /\ [][(hist.on /\ pc[Manual] = "fetch" /\ pc'[Manual] = "idle")
          => UNCHANGED <<store, markAge, fanAge>>]_vars

\* the fan-out is initiated for a video whose key is in the store
C23_Witness ==
  /\ hist.on
  /\ pc[Manual] = "send" /\ ent[Manual].fanned /\ ent[Manual].queries = 0
  /\ store[ent[Manual].vid] > 0 /\ MarkInForce(ent[Manual].vid)

\* C24: whatever ends the process (an operator signal, an uncaught
\* exception, an unhandled rejection, a failed start-up), the connection to
\* the key-value store has been closed when the process exits.
C24_StoreClosedBeforeExit ==
  app.stage = "exited" => app.redis = "closed"

\* C25: the process exits with status 0 exactly when isShuttingDown was
\* set, which only the handler registered for SIGTERM, SIGINT, uncaught
\* exceptions and unhandled rejections does; otherwise, and so when
\* shutdown() was called from a failed start-up, the status is not 0.
C25_ExitStatus ==
  /\ app.stage = "exited" =>
        /\ (app.code = 0) = app.isShuttingDown
        /\ app.cause = "startup" => app.code = 1
        /\ app.code /= -1
  /\ (app.stage /= "none" /\ app.isShuttingDown)
        => (app.handlers /\ app.cause \in Signals \cup Faults)

\* an uncaught exception in the running process has ended it with status 0
C25_Witness ==
  /\ app.stage = "exited" /\ app.cause = "uncaughtException"
  /\ app.isShuttingDown /\ app.code = 0

C27_PortAndLevelOptional ==
  ( /\ probe.op = "loaded"
    /\ \A v \in EnvVars \ {"PORT", "LOG_LEVEL"} :
          probe.env[v] \in {"x", GOOD_LINKS, "c1,c2"}
    /\ probe.env["PORT"] \in {Unset, "8080"}
    /\ probe.env["LOG_LEVEL"] \in {Unset, "debug"} )
  => /\ probe.res.ok
     /\ probe.env["PORT"] = Unset => probe.res.config.port = 3000
     /\ probe.env["LOG_LEVEL"] = Unset => probe.res.config.level = "info"

\* C28: the links read back from a rendered message are the six links of
\* the record, each as it was given, in the order of the template, for
\* every title and every link set.
C28_LinksRoundTrip ==
  probe.op = "formatted" =>
    probe.links = [i \in 1..Len(Platforms) |-> probe.platforms[Platforms[i]]]

\* C29 (as stated): once a key exists for an id, no step rewrites it or
\* resets or extends its expiry: its time to live only runs down.
C29_KeyNeverRewritten ==
  [][\A x \in Ids : store[x] > 0 => store'[x] <= store[x]]_vars

\* C29 (amended): a key that exists is never deleted or shortened, and its
\* expiry is reset, to the full 24 hours, only by the mark that follows a
\* fan-out for the same id: the manual trigger's, which makes no existence
\* check, or that of a webhook entry whose existence check failed or was
\* made when no mark of the id was in force.
C29_KeyRewrittenOnlyByUngatedMark ==
  [][\A x \in Ids :
       (store[x] > 0 /\ store'[x] /= store[x]) =>
          \/ store'[x] = store[x] - TickStep(phase) /\ phase' /= phase
          \/ store'[x] = 0 /\ store[x] <= TickStep(phase) /\ phase' /= phase
          \/ /\ store'[x] = TTL_SECONDS
             /\ \E p \in Procs :
                   /\ pc[p] = "mark" /\ pc'[p] /= "mark"
                   /\ ent[p].vid = x /\ ent[p].fanned
                   /\ \/ p = Manual
                      \/ ent[p].chkErr
                      \/ ~ent[p].chkLive]_vars

\* the manual trigger has fanned out and is about to mark a video whose
\* key, written by the webhook's mark, has part of its 24 hours left
C29_Witness ==
  /\ pc[Manual] = "mark" /\ ent[Manual].fanned
  /\ store[ent[Manual].vid] > 0 /\ store[ent[Manual].vid] < TTL_SECONDS
  /\ ent["w1"].vid = ent[Manual].vid /\ ent["w1"].markOk

\* C30 (as stated): the tag predicate is the first gate: an entry that is
\* skipped for want of the tag has queried no suppressor and fetched no
\* metadata.
C30_TagFilterFirst ==
  \A p \in Webhooks :
    ent[p].outcome = "notag" => (ent[p].queries = 0 /\ ent[p].fetches = 0)

\* C30 (amended): for each entry the gates come in the order existence
\* check, metadata fetch, tag filter, fan-out.  The fetch is made after one
\* query that did not answer "already notified", an entry stopped by the
\* check has fetched nothing, the tag predicate is evaluated on the fetched
\* metadata, and the fan-out follows the query and the one fetch.
C30_GateOrder ==
  \A p \in Webhooks :
    LET e == ent[p]
    IN /\ pc[p] = "fetch" => (e.queries = 1 /\ ~e.already /\ e.fetches = 0)
       /\ e.outcome = "dup" => (e.queries = 1 /\ e.already /\ e.fetches = 0)
       /\ e.outcome \in {"nometa", "notag"}
            => (e.queries = 1 /\ ~e.already /\ e.fetches = 1 /\ ~e.fanned)
       /\ e.fanned => (e.queries = 1 /\ ~e.already /\ e.fetches = 1)
       /\ e.outcome = "noid" => (e.queries = 0 /\ e.fetches = 0)

\* an entry is skipped for want of the tag after its query and its fetch,
\* the entry before it having been stopped by the existence check
C30_Witness ==
  /\ hist.on
  /\ ent["w1"].outcome = "notag"
  /\ ent["w1"].queries = 1 /\ ent["w1"].fetches = 1
  /\ \E i \in 1..Len(hist.log["w1"]) : hist.log["w1"][i].outcome = "dup"

\* C31: with webhook requests handled one at a time, no manual trigger
\* and the store answering, no fan-out is initiated for an id between a
\* successful mark of the id and the expiry of its key: while a fan-out
\* whose existence query was answered is under way, no mark of its id is
\* in force and the store holds no key for it.
C31_NoFanOutWhileMarked ==
  \A p \in Webhooks :
    (pc[p] = "send" /\ ~ent[p].chkErr) =>
      /\ ent[p].fanned /\ ~ent[p].already
      /\ ~MarkInForce(ent[p].vid)
      /\ store[ent[p].vid] = 0

\* a fan-out is initiated again for an id once its earlier mark, made
\* after an earlier fan-out of the same request, is 24 hours old
C31_Witness ==
  /\ hist.on
  /\ pc["w1"] = "send" /\ ~ent["w1"].chkErr /\ ent["w1"].queries = 1
  /\ markAge[ent["w1"].vid] = TTL_SECONDS
  /\ Len(hist.log["w1"]) = 1 /\ hist.log["w1"][1].outcome = "sent"

\* C32: the store holds a key for an id only if a fan-out for the id was
\* initiated earlier; a key is written only by the mark of an entry whose
\* fan-out has returned its results; and no return of an entry by a skip
\* path (no id, already notified, no metadata, no tag, an exception)
\* changes the store.
C32_KeyOnlyAfterFanOut ==
  /\ [](\A x \in Ids : store[x] > 0 => fanAge[x] >= 0)
  /\ [][\A x \in Ids :
          store'[x] > store[x] =>
            \E p \in Procs :
              /\ pc[p] = "mark" /\ pc'[p] /= "mark"
              /\ ent[p].vid = x /\ ent[p].fanned
              /\ Len(ent[p].results) = Len(chatIds)
              /\ ent'[p].outcome = "sent"]_vars
  /\ [][\A p \in Procs :
          ( /\ ent'[p] /= ent[p]
            /\ ent'[p].outcome \in {"noid", "dup", "nometa", "notag", "threw"} )
          => store' = store]_vars

\* the key written by the manual trigger's mark is in the store, and the
\* webhook's entry has ended in an exception after its fan-out, unmarked
C32_Witness ==
  /\ ent[Manual].outcome = "sent" /\ ent[Manual].markOk
  /\ store[ent[Manual].vid] > 0 /\ fanAge[ent[Manual].vid] >= 0
  /\ ent["w1"].outcome = "threw" /\ ent["w1"].fanned /\ ent["w1"].marks = 0

\* C33: a metadata request that fails at all 3 attempts, by rate limiting
\* or otherwise, has slept exactly twice when the last error is thrown:
\* once after each of the first two failures and not after the third.
C33_TwoDelaysOnExhaustion ==
  (probe.op = "fetch" /\ probe.run.threw) =>
    /\ probe.run.requests = YT_MAX_RETRIES
    /\ Len(probe.run.delays) = YT_MAX_RETRIES - 1

\* C34: within one fan-out no destination is sent to again after a send
\* to it succeeded, so each destination gets at most one successful send;
\* and the sends made, the one about to be made included, number at most
\* 3 for each destination.
C34_AtMostOneSuccessPerDestination ==
  delivery /= NoDelivery =>
    LET calls == delivery.calls
    IN /\ \A k \in 1..Len(calls) :
            calls[k].ok =>
              /\ \A j \in 1..Len(calls) :
                    (j /= k /\ calls[j].dest = calls[k].dest)
                      => (j < k /\ ~calls[j].ok)
              /\ delivery.dest > calls[k].dest
       /\ \A d \in 1..Len(chatIds) :
            Cardinality({k \in 1..Len(calls) : calls[k].dest = d})
              + (IF delivery.dest = d THEN 1 ELSE 0) <= TG_MAX_RETRIES
       /\ Len(calls) + 1 <= TG_MAX_RETRIES * Len(chatIds)
       /\ delivery.dest <= Len(chatIds)

\* the first destination took the message at the second attempt and the
\* fan-out has gone on to the second destination
C34_Witness ==
  /\ delivery /= NoDelivery
  /\ Len(delivery.calls) = 3
  /\ delivery.calls[2].dest = 1 /\ delivery.calls[2].ok
  /\ delivery.calls[3].dest = 2 /\ ~delivery.calls[3].ok
  /\ delivery.results[1].success

\* C35: an exception inside one entry stays inside it: the entry is left
\* without a mark, the entries after it are processed all the same, and
\* the request is answered 200, never 500.
C35_ExceptionContained ==
  hist.on =>
    \A p \in Webhooks :
      LET log == hist.log[p]
      IN /\ ent[p].outcome = "threw" => (ent[p].marks = 0 /\ ~ent[p].markOk)
         /\ status[p] /= 500
         /\ (\E i \in 1..Len(log) : log[i].outcome = "threw") =>
               /\ pc[p] \in {"loop", "fetch", "send", "mark", "done"}
               /\ Len(log) + (IF InFlight(p) THEN 1 ELSE 0) + Len(todo[p])
                    = Len(hist.payload[p])
               /\ pc[p] = "done" =>
                     (status[p] = 200 /\ Len(log) = Len(hist.payload[p]))

\* the first entry threw after its fan-out, the second was fanned out and
\* marked, and the request was answered 200
C35_Witness ==
  /\ hist.on
  /\ pc["w1"] = "done" /\ status["w1"] = 200
  /\ Len(hist.log["w1"]) = 2
  /\ hist.log["w1"][1].outcome = "threw" /\ hist.log["w1"][1].fanned
  /\ hist.log["w1"][2].outcome = "sent"
  /\ store["a"] > 0

\* the work done so far for the entry of handler p stays within one existence
\* query, one metadata fetch of at most three requests, three sendMessage
\* calls for each destination and one mark
WithinBounds(p) ==
  /\ ent[p].queries <= 1
  /\ ent[p].fetches <= 1
  /\ hist.requests[p] <= YT_MAX_RETRIES
  /\ ent[p].marks <= 1
  /\ (pc[p] = "send" /\ delivery /= NoDelivery) =>
        \A d \in 1..Len(chatIds) :
          Cardinality({k \in 1..Len(delivery.calls) :
                         delivery.calls[k].dest = d})
            + (IF delivery.dest = d THEN 1 ELSE 0) <= TG_MAX_RETRIES

\* C36: when every awaited call returns or fails, every webhook POST gets
\* its response, the 200 only after all entries of the payload have been
\* processed, and the work for each entry stays within 1 existence query,
\* 3 metadata requests, 3 sends for each destination and 1 mark.
C36_AnsweredWithinBounds ==
  /\ [](\A p \in Webhooks :
          /\ WithinBounds(p)
          /\ (pc[p] = "done" /\ status[p] = 200) =>
                (todo[p] = <<>> /\ ~InFlight(p)
                 /\ Len(hist.log[p]) = Len(hist.payload[p])))
  /\ \A p \in Webhooks :
        (pc[p] \in {"loop", "fetch", "send", "mark"}) ~> (pc[p] = "done")

\* a request of two entries is answered 200 after the second entry took
\* all three metadata requests, was sent and marked
C36_Witness ==
  /\ pc["w1"] = "done" /\ status["w1"] = 200
  /\ Len(hist.payload["w1"]) = 2 /\ Len(hist.log["w1"]) = 2
  /\ hist.log["w1"][2].outcome = "sent"
  /\ hist.requests["w1"] = YT_MAX_RETRIES
  /\ ent["w1"].queries = 1 /\ ent["w1"].marks = 1

C38_ShutdownRunsOnce ==
  (app.stage /= "none" /\ app.isShuttingDown) =>
    /\ app.shutdowns = 1
    /\ app.stops = 1
    /\ app.closes <= 1
    /\ app.stage \in {"closing", "exited"}
    /\ app.stage = "closing" => (app.code = -1 /\ app.closes = 1)
    /\ app.stage = "exited" => app.code = 0

\* an event came while the shutdown was waiting for the store to close and
\* was turned away; the process then ended through the one shutdown
C38_Witness ==
  /\ app.stage = "exited" /\ app.isShuttingDown /\ app.ignored
  /\ app.shutdowns = 1 /\ app.stops = 1 /\ app.closes = 1
  /\ app.redis = "closed" /\ app.code = 0

\* C39: start() sends one subscription request to the hub and waits for it
\* before it starts the bot and before the server takes requests; when the
\* request fails or is turned down, it is not sent again and start() goes on
\* to the bot all the same.
C39_SubscribeFirstAndOnce ==
  app.stage /= "none" =>
    /\ app.requests <= 1
    /\ (app.bot \/ app.server \/ app.stage \in {"bot", "running"}) =>
          (app.requests = 1 /\ app.subscription \in HubAnswers)
    /\ (app.stage = "subscribe") =>
          (app.requests = 0 /\ app.subscription = "none"
           /\ ~app.bot /\ ~app.server /\ ~Listening)
    /\ (\E p \in Webhooks : pc[p] /= "idle") => app.requests = 1
    /\ app.cause = "startup" => (app.bot /\ app.requests = 1)
    /\ (app.subscription /= "none" /\ ~app.bot) =>
          (app.stage = "bot" \/ app.cause \in Signals \cup Faults)

\* the hub turned the subscription down, and the process went on to start
\* the bot and serve a webhook request
C39_Witness ==
  /\ app.subscription = "rejected" /\ app.requests = 1
  /\ app.stage = "running" /\ app.bot /\ app.server
  /\ pc["w1"] = "done" /\ status["w1"] = 200

============================================================================
